---- MODULE Spec2Model ----
(***************************************************************************)
(* SigMF archives (NTIA/sigmf-python): the Archive Writer (SigMFArchive),  *)
(* the Archive Reader (SigMFArchiveReader) and the Capture Index of a      *)
(* Recording (SigMFFile).                                                  *)
(*                                                                         *)
(* Python strings are tuples of one-character strings, so that endswith,   *)
(* os.path.split and os.path.splitext are computed as Python computes      *)
(* them.  None and the empty string (both falsy) are the empty tuple.      *)
(***************************************************************************)
EXTENDS Integers, Sequences, FiniteSets, TLC

VARIABLES
    fs,       \* the file system: file path -> [exists, members]
    pre,      \* fs as it was when SigMFArchive was called
    sink,     \* the caller's file object (fileobj), or NoSink
    pc,       \* where SigMFArchive.__init__ stands
    self,     \* the SigMFArchive object's attributes
    err,      \* the exception SigMFArchive raised, "" if none
    at,       \* the step of SigMFArchive.__init__ that raised it
    tar,      \* the TarFile (sigmf_archive) the Writer holds
    handle,   \* the file handle the Writer opened itself (path target)
    next,     \* the Recording the Writer's loop stages next
    rd,       \* the SigMFArchiveReader made from the Writer's result
    ix,       \* the Recording whose captures are indexed (Capture Index)
    tmp       \* the temporary files and directories of the Writer that exist

vars == <<fs, pre, sink, pc, self, err, at, tar, handle, next, rd, ix, tmp>>

avars == <<fs, pre, sink, pc, self, err, at, tar, handle, next, rd, tmp>>

-----------------------------------------------------------------------------
(* Bounds of the model *)

\* longest list of Recordings handed to SigMFArchive
MaxRecs == 2

\* most streams of a Collection
MaxStreams == 2

\* the longest capture list of a Recording handed to the Capture Index
MaxCaptures == 2

\* the longest dataset, in bytes, of a Recording handed to the Capture Index
MaxLength == 8

\* the most members of a container that was not written by SigMFArchive
MaxMembers == 4

-----------------------------------------------------------------------------
(* Python strings *)

SIGMF_ARCHIVE_EXT == <<".", "s", "i", "g", "m", "f">>

SIGMF_METADATA_EXT == <<".", "s", "i", "g", "m", "f", "-", "m", "e", "t", "a">>

SIGMF_DATASET_EXT == <<".", "s", "i", "g", "m", "f", "-", "d", "a", "t", "a">>

SIGMF_COLLECTION_EXT ==
    <<".", "s", "i", "g", "m", "f", "-", "c", "o", "l", "l", "e", "c", "t", "i", "o", "n">>

\* str.endswith
EndsWith(s, suf) ==
    /\ Len(s) >= Len(suf)
    /\ SubSeq(s, Len(s) - Len(suf) + 1, Len(s)) = suf

\* c in s
HasChar(s, c) == \E k \in 1..Len(s) : s[k] = c

\* str.rfind, 1-based; 0 when c does not occur
RFind(s, c) ==
    IF HasChar(s, c)
    THEN CHOOSE k \in 1..Len(s) : s[k] = c /\ \A j \in (k+1)..Len(s) : s[j] # c
    ELSE 0

\* str.rstrip("/")
RECURSIVE RStripSep(_)
RStripSep(s) ==
    IF s # <<>> /\ s[Len(s)] = "/" THEN RStripSep(SubSeq(s, 1, Len(s) - 1)) ELSE s

\* os.path.split: <<head, tail>>
Split(p) ==
    LET i == RFind(p, "/")
        head == SubSeq(p, 1, i)
        tail == SubSeq(p, i + 1, Len(p))
    IN  <<IF \E k \in 1..Len(head) : head[k] # "/" THEN RStripSep(head) ELSE head, tail>>

\* os.path.splitext: <<root, ext>>; leading dots of the last component are no extension
SplitExt(p) ==
    LET sepIndex == RFind(p, "/")
        dotIndex == RFind(p, ".")
    IN  IF /\ dotIndex > sepIndex
           /\ \E k \in (sepIndex + 1)..(dotIndex - 1) : p[k] # "."
        THEN <<SubSeq(p, 1, dotIndex - 1), SubSeq(p, dotIndex, Len(p))>>
        ELSE <<p, <<>>>>

\* os.path.join(a, b) for a relative b
Join(a, b) == a \o <<"/">> \o b

\* the working directory of the process
CWD == <<"/", "w">>

\* os.path.normpath on a path whose only redundant parts are leading "./"
RECURSIVE NormPath(_)
NormPath(p) ==
    IF Len(p) >= 2 /\ p[1] = "." /\ p[2] = "/" THEN NormPath(SubSeq(p, 3, Len(p)))
    ELSE p

\* os.path.abspath, which tarfile.TarFile applies to its name
Abspath(p) ==
    IF p # <<>> /\ p[1] = "/" THEN NormPath(p) ELSE Join(CWD, NormPath(p))

-----------------------------------------------------------------------------
(* Recordings, Collections and the inputs of SigMFArchive *)

\* sigmffile.name: unset, plain, or with a directory part
Names == { <<>>, <<"a">>, <<"d", "/", "a">> }

\* A metadata tree: the MetadataValidator's verdict on it, the global datatype
\* (bytes per component, real or complex), core:num_channels,
\* core:trailing_bytes, and the captures (core:sample_start, core:header_bytes)
Metadata(valid, width, complex, num_channels, trailing, captures) ==
    [valid |-> valid, width |-> width, complex |-> complex,
     num_channels |-> num_channels, trailing |-> trailing, captures |-> captures]

Capture(start_index, header_bytes) ==
    [start_index |-> start_index, header_bytes |-> header_bytes]

\* the metadata of the Recordings handed to the Writer: one that fails
\* validate(), a conforming one-channel one and a two-channel one
MetaBad == Metadata(FALSE, 1, FALSE, 1, 0, <<Capture(0, 0)>>)

MetaA == Metadata(TRUE, 1, FALSE, 1, 0, <<Capture(0, 0)>>)

MetaB == Metadata(TRUE, 1, FALSE, 2, 0, <<Capture(0, 0)>>)

\* A Recording (SigMFFile): its name, whether data_file is set, its metadata
\* and the byte length of its dataset
Recording(name, data_file, meta, length) ==
    [name |-> name, data_file |-> data_file, meta |-> meta, length |-> length]

\* the Recordings handed to the Writer; the dataset holds one sample per channel
Recs ==
    { r \in { Recording(n, d, m, m.num_channels) :
                 n \in Names, d \in BOOLEAN, m \in {MetaBad, MetaA, MetaB} } :
        \* named, bound to a data file and valid
        \/ r.name # <<>> /\ r.data_file /\ r.meta.valid
        \* failing one check of _check_input, or the schema validation and one
        \* of the checks made before it
        \/ r.name = <<>> /\ r.data_file /\ r.meta # MetaB
        \/ r.name = <<"a">> /\ ~r.data_file /\ r.meta # MetaB
        \/ r.name = <<"a">> /\ r.data_file /\ ~r.meta.valid }

\* sigmffile.validate(): the MetadataValidator's verdict on the metadata tree
Validates(r) == r.meta.valid

\* sigmffile.dump(f, pretty=True): the TextSerializer's canonical text
Dump(meta) == [json |-> meta]

\* the metadata tree read back from that text
Loads(text) == text.json

\* sigmf_hash.calculate_sha512 of a file holding `text` (no collisions)
Sha512(text) == [sha512 |-> text]

\* the bytes of the data file of Recording r
DataBytes(r) == [k \in 1..r.length |-> <<"data", r.meta, k>>]

SeqsUpTo(n, S) == UNION { [1..k -> S] : k \in 0..n }

RecLists == SeqsUpTo(MaxRecs, Recs)

\* the stream hashes a Collection can hold
Hashes == { Sha512(Dump(m)) : m \in {MetaA, MetaB} }

NoCollection == [given |-> FALSE, streams |-> <<>>]

\* A Collection (SigMFCollection): the hashes of its streams, in order
Collections ==
    {NoCollection} \cup { [given |-> TRUE, streams |-> s] : s \in SeqsUpTo(MaxStreams, Hashes) }

\* len(collection): the number of streams
CollectionLen(c) == Len(c.streams)

\* Python truth value of `collection`: None is false, and an object with
\* __len__ and no __bool__ is true iff its length is not 0
Truthy(c) == c.given /\ CollectionLen(c) # 0

\* the `path` argument: omitted, without extension, .sigmf, another extension,
\* a file name without extension under the directory ".", and an absolute path
Paths ==
    { <<>>,
      <<"x">>,
      <<"x">> \o SIGMF_ARCHIVE_EXT,
      <<"x", ".", "z", "i", "p">>,
      <<".", "/", "x">>,
      Join(CWD, <<"x">> \o SIGMF_ARCHIVE_EXT) }

\* the names of the file objects a caller passes as `fileobj`
SinkNames == { <<"t">>, <<"t">> \o SIGMF_ARCHIVE_EXT }

\* an in-memory buffer (io.BytesIO) passed as `fileobj`: the key under which
\* the file system of the model keeps its bytes; the object has no `name`
InMemory == <<"/", "m">>

\* every file object a caller passes as `fileobj`
FileObjects == SinkNames \cup {InMemory}

\* the files of the model's file system, by absolute path
Files == { Abspath(f) : f \in { <<"x">> \o SIGMF_ARCHIVE_EXT } \cup FileObjects }

\* the `sigmffiles` argument: an object of some type and the Recordings it is,
\* holds or yields
Sigmffiles(kind, items) == [kind |-> kind, items |-> items]

\* the arguments the Writer is handed: a single SigMFFile, a list, a one-shot
\* iterator (a generator), and an object that is neither (None)
SigmffilesArguments ==
    { Sigmffiles("SigMFFile", <<r>>) : r \in Recs }
    \cup { Sigmffiles(kind, R) : kind \in {"list", "iterator"}, R \in RecLists }
    \cup { Sigmffiles("NoneType", <<>>) }

NoFile == [exists |-> FALSE, members |-> <<>>]

NoSink == [given |-> FALSE, name |-> <<>>, pos |-> 0, closed |-> FALSE]

-----------------------------------------------------------------------------
(* SigMFArchive._check_input *)

\* _ensure_path_has_correct_extension: the error raised ("" if none) and self.path
EnsurePathHasCorrectExtension(path) ==
    IF path = <<>>
    THEN [err |-> "", path |-> path]
    ELSE LET has_extension == HasChar(path, ".")
             has_correct_extension == EndsWith(path, SIGMF_ARCHIVE_EXT)
         IN  IF has_extension /\ ~has_correct_extension
             THEN [err |-> "SigMFFileError", path |-> path]
             ELSE [err |-> "",
                   path |-> IF has_correct_extension THEN path
                            ELSE path \o SIGMF_ARCHIVE_EXT]

\* CheckSigmffile as it would be with the schema validation as the first check
CheckSigmffileValidatesFirst(r) ==
    IF ~Validates(r) THEN "ValidationError"
    ELSE IF r.name = <<>> THEN "SigMFFileError"
    ELSE IF ~r.data_file THEN "SigMFFileError"
    ELSE ""

\* the three checks of one Recording, in the order of the loop body
CheckSigmffile(r) ==
    IF r.name = <<>> THEN "SigMFFileError"          \* _ensure_sigmffile_name_set
    ELSE IF ~r.data_file THEN "SigMFFileError"      \* _ensure_data_file_set
    ELSE IF ~Validates(r) THEN "ValidationError"    \* _validate_sigmffile_metadata
    ELSE ""

\* for sigmffile in self.sigmffiles: the first error raised
RECURSIVE CheckSigmffiles(_, _)
CheckSigmffiles(R, k) ==
    IF k > Len(R) THEN ""
    ELSE IF CheckSigmffile(R[k]) # "" THEN CheckSigmffile(R[k])
    ELSE CheckSigmffiles(R, k + 1)

\* _validate_sigmffile_collection
ValidateSigmffileCollection(c, R) ==
    LET sigmf_meta_hashes == { c.streams[k] : k \in 1..Len(c.streams) }
    IN  IF CollectionLen(c) # Len(R) THEN "SigMFValidationError"
        ELSE IF c.streams = <<>> THEN "SigMFValidationError"
        ELSE IF \E k \in 1..Len(R) : Sha512(Dump(R[k].meta)) \notin sigmf_meta_hashes
             THEN "SigMFValidationError"
        ELSE ""

\* _check_input: the error raised ("" if none) and self.path
CheckInput(R, c, path) ==
    LET e == EnsurePathHasCorrectExtension(path)
    IN  IF e.err # "" THEN e
        ELSE IF CheckSigmffiles(R, 1) # "" THEN [err |-> CheckSigmffiles(R, 1), path |-> e.path]
        ELSE IF Truthy(c) /\ ValidateSigmffileCollection(c, R) # ""
             THEN [err |-> ValidateSigmffileCollection(c, R), path |-> e.path]
        ELSE [err |-> "", path |-> e.path]

\* _check_input on the object held by self.sigmffiles: a one-shot iterator has
\* no len(), so line 178 raises TypeError when the validation of the Collection
\* is reached
CheckInputOf(sigmffiles, c, path) ==
    LET chk == CheckInput(sigmffiles.items, c, path)
    IN  IF /\ sigmffiles.kind = "iterator"
           /\ EnsurePathHasCorrectExtension(path).err = ""
           /\ CheckSigmffiles(sigmffiles.items, 1) = ""
           /\ Truthy(c)
        THEN [err |-> "TypeError", path |-> chk.path]
        ELSE chk

-----------------------------------------------------------------------------
(* The container: a sequence of tar members *)

\* A member (TarInfo and its bytes).  kind is "dir", "meta", "data" or "coll";
\* a metadata member holds Dump(meta), a dataset member the `size` bytes of the
\* data file of the Recording with metadata meta, a collection member the text
\* of `streams`.
Member(name, type, mode, kind, meta, streams, size) ==
    [name |-> name, type |-> type, mode |-> mode, kind |-> kind,
     meta |-> meta, streams |-> streams, size |-> size]

\* TarFile.add without a filter: the member keeps the mode of the staged file
chmodKeepsMode(tarinfo) == tarinfo

\* the filter handed to TarFile.add
chmod(tarinfo) ==
    IF tarinfo.type = "dir"
    THEN [tarinfo EXCEPT !.mode = 493]   \* 0o755
    ELSE [tarinfo EXCEPT !.mode = 420]   \* 0o644

\* sigmf_archive.add(tmpfile.name, arcname=collection_filename, filter=chmod)
CollectionMember(archive_name, c) ==
    chmod(Member(archive_name \o SIGMF_COLLECTION_EXT, "file", 384, "coll", MetaBad,
                 c.streams, 1))

\* RecordingMembers as it would be if the files of the staging directory were
\* added before the directory itself
RecordingMembersFilesFirst(r) ==
    LET sigmf_md_filename == r.name \o SIGMF_METADATA_EXT
        sigmf_data_filename == r.name \o SIGMF_DATASET_EXT
    IN  << chmod(Member(Join(r.name, sigmf_data_filename), "file", 420, "data",
                        r.meta, <<>>, r.length)),
           chmod(Member(Join(r.name, sigmf_md_filename), "file", 420, "meta",
                        r.meta, <<>>, 1)),
           chmod(Member(r.name, "dir", 448, "dir", MetaBad, <<>>, 0)) >>

\* sigmf_archive.add(tmpdir, arcname=sigmffile.name, filter=chmod): the staging
\* directory, then its files in sorted order (.sigmf-data before .sigmf-meta)
RecordingMembers(r) ==
    LET sigmf_md_filename == r.name \o SIGMF_METADATA_EXT
        sigmf_data_filename == r.name \o SIGMF_DATASET_EXT
    IN  << chmod(Member(r.name, "dir", 448, "dir", MetaBad, <<>>, 0)),
           chmod(Member(Join(r.name, sigmf_data_filename), "file", 420, "data",
                        r.meta, <<>>, r.length)),
           chmod(Member(Join(r.name, sigmf_md_filename), "file", 420, "meta",
                        r.meta, <<>>, 1)) >>

\* the bytes of a container: per member one header cell, then its content cells
MemberBytes(m) == <<<<"hdr", MetaBad, 0>>>> \o [k \in 1..m.size |-> <<m.kind, m.meta, k>>]

RECURSIVE TarBytes(_)
TarBytes(members) ==
    IF members = <<>> THEN <<>>
    ELSE MemberBytes(Head(members)) \o TarBytes(Tail(members))

\* TarInfo.offset_data of the k-th member
OffsetData(members, k) == Len(TarBytes(SubSeq(members, 1, k - 1))) + 1

\* the bytes of the range (offset, size) of a container
View(members, offset, size) == SubSeq(TarBytes(members), offset + 1, offset + size)

\* a container written by an earlier SigMFArchive call
PriorMembers == RecordingMembers(Recording(<<"a">>, TRUE, MetaB, 2))

-----------------------------------------------------------------------------
(* SigMFArchive.__init__, step by step *)

NoTar == [open |-> FALSE, mode |-> "", archive_name |-> <<>>, file |-> <<>>]

NoReader == [state |-> "idle", err |-> "", path |-> <<>>, sigmffiles |-> <<>>,
             collection |-> NoCollection]

\* no file at the path target, empty temporary files behind the file objects
FreshFs == [f \in Files |-> IF f \in { Abspath(t) : t \in FileObjects }
                            THEN [exists |-> TRUE, members |-> <<>>]
                            ELSE NoFile]

\* every target already holds a container
PriorFs == [f \in Files |-> [exists |-> TRUE, members |-> PriorMembers]]

\* Call with the output opened before _check_input has run
CallOpensFirst(sigmffiles, c, path, f) ==
    /\ pc = "idle"
    /\ pre' = fs
    /\ IF path = <<>> /\ f = <<>>
       THEN /\ pc' = "raised"
            /\ err' = "SigMFFileError"
            /\ at' = "arguments"
            /\ UNCHANGED <<self, sink, fs>>
       ELSE IF sigmffiles.kind \notin {"SigMFFile", "list", "iterator"}
       THEN /\ pc' = "raised"                       \* lines 67-75
            /\ err' = "SigMFFileError"
            /\ at' = "sigmffiles"
            /\ UNCHANGED <<self, sink, fs>>
       ELSE LET chk == CheckInputOf(sigmffiles, c, path)
            IN  /\ self' = [sigmffiles |-> sigmffiles.items, kind |-> sigmffiles.kind,
                            collection |-> c, path |-> chk.path,
                            fileobj |-> f # <<>>, path_arg |-> path]
                /\ sink' = IF f = <<>> THEN NoSink
                           ELSE [given |-> TRUE, name |-> f, pos |-> 0, closed |-> FALSE]
                /\ fs' = IF f = <<>> /\ Abspath(chk.path) \in Files
                         THEN [fs EXCEPT ![Abspath(chk.path)] =
                                             [exists |-> TRUE, members |-> <<>>]]
                         ELSE fs
                /\ err' = chk.err
                /\ at' = IF chk.err = "" THEN "" ELSE "_check_input"
                /\ pc' = IF chk.err = "" THEN "checked" ELSE "raised"
    /\ UNCHANGED <<tar, handle, next, rd, ix, tmp>>

\* Call as it would be if line 63 tested `not path` alone
CallNeedsPath(sigmffiles, c, path, f) ==
    /\ pc = "idle"
    /\ pre' = fs
    /\ IF path = <<>>
       THEN /\ pc' = "raised"
            /\ err' = "SigMFFileError"
            /\ at' = "arguments"
            /\ UNCHANGED self
            /\ sink' = IF f = <<>> THEN NoSink
                       ELSE [given |-> TRUE, name |-> f, pos |-> 0, closed |-> FALSE]
       ELSE IF sigmffiles.kind \notin {"SigMFFile", "list", "iterator"}
       THEN /\ pc' = "raised"                       \* lines 67-75
            /\ err' = "SigMFFileError"
            /\ at' = "sigmffiles"
            /\ UNCHANGED <<self, sink>>
       ELSE LET chk == CheckInputOf(sigmffiles, c, path)
            IN  /\ self' = [sigmffiles |-> sigmffiles.items, kind |-> sigmffiles.kind,
                            collection |-> c, path |-> chk.path,
                            fileobj |-> f # <<>>, path_arg |-> path]
                /\ sink' = IF f = <<>> THEN NoSink
                           ELSE [given |-> TRUE, name |-> f, pos |-> 0, closed |-> FALSE]
                /\ err' = chk.err
                /\ at' = IF chk.err = "" THEN "" ELSE "_check_input"
                /\ pc' = IF chk.err = "" THEN "checked" ELSE "raised"
    /\ UNCHANGED <<fs, tar, handle, next, rd, ix, tmp>>

\* lines 63-84: the arguments are taken, then _check_input runs
Call(sigmffiles, c, path, f) ==
    /\ pc = "idle"
    /\ pre' = fs
    /\ IF path = <<>> /\ f = <<>>
       THEN /\ pc' = "raised"
            /\ err' = "SigMFFileError"
            /\ at' = "arguments"
            /\ UNCHANGED <<self, sink>>
       ELSE IF sigmffiles.kind \notin {"SigMFFile", "list", "iterator"}
       THEN /\ pc' = "raised"                       \* lines 67-75
            /\ err' = "SigMFFileError"
            /\ at' = "sigmffiles"
            /\ UNCHANGED <<self, sink>>
       ELSE LET chk == CheckInputOf(sigmffiles, c, path)
            IN  /\ self' = [sigmffiles |-> sigmffiles.items, kind |-> sigmffiles.kind,
                            collection |-> c, path |-> chk.path,
                            fileobj |-> f # <<>>, path_arg |-> path]
                /\ sink' = IF f = <<>> THEN NoSink
                           ELSE [given |-> TRUE, name |-> f, pos |-> 0, closed |-> FALSE]
                /\ err' = chk.err
                /\ at' = IF chk.err = "" THEN "" ELSE "_check_input"
                /\ pc' = IF chk.err = "" THEN "checked" ELSE "raised"
    /\ UNCHANGED <<fs, tar, handle, next, rd, ix, tmp>>

\* the parameters of SigMFArchive.__init__ (lines 56-61)
InitParameters == {"sigmffiles", "collection", "path", "fileobj"}

\* Python's binding of a call's keyword arguments to the parameters
Bind(keywords, parameters) ==
    IF keywords \subseteq parameters THEN "" ELSE "TypeError"

\* the keyword arguments of the SigMFArchive call in SigMFFileCollection.archive
ArchiveKeywords == {"path", "fileobj", "pretty"}

\* the lists of Recordings a SigMFFileCollection is made of in the round trip:
\* one or more, each named, bound to a data file and valid
FileCollections ==
    { R \in RecLists :
        /\ Len(R) >= 1
        /\ \A k \in 1..Len(R) : R[k].name # <<>> /\ R[k].data_file /\ Validates(R[k]) }

\* SigMFFileCollection(R).archive(fileobj=f): SigMFArchive(self, path=name,
\* fileobj=fileobj, pretty=pretty); the collection object is neither a SigMFFile
\* nor an Iterable (lines 67-75)
FileCollectionArchive(R, f) ==
    /\ pc = "idle"
    /\ pre' = fs
    /\ self' = [self EXCEPT !.sigmffiles = R]
    /\ sink' = [given |-> TRUE, name |-> f, pos |-> 0, closed |-> FALSE]
    /\ pc' = "raised"
    /\ err' = IF Bind(ArchiveKeywords, InitParameters) # ""
              THEN Bind(ArchiveKeywords, InitParameters)
              ELSE "SigMFFileError"
    /\ at' = "SigMFFileCollection.archive"
    /\ UNCHANGED <<fs, tar, handle, next, rd, ix, tmp>>

\* hasattr(fileobj, "name"): an in-memory buffer has no name
HasName(fileobj) == fileobj.name # InMemory

\* GetArchiveName as it would be if line 198 tested `self.fileobj` alone
GetArchiveNamePrefersFileobj ==
    LET pathname == IF self.fileobj THEN sink.name ELSE self.path
        filename == Split(pathname)[2]
    IN  SplitExt(filename)[1]

\* _get_archive_name
GetArchiveName ==
    LET pathname == IF self.fileobj /\ self.path = <<>> THEN sink.name ELSE self.path
        filename == Split(pathname)[2]
    IN  SplitExt(filename)[1]

\* GetOutputFileobj as it would be if the caller's file object were truncated
\* like a path target
GetOutputFileobjTruncates ==
    /\ pc = "checked"
    /\ tar' = [open |-> FALSE,
               mode |-> IF self.fileobj THEN "a" ELSE "w",
               archive_name |-> GetArchiveName,
               file |-> Abspath(IF self.fileobj THEN sink.name ELSE self.path)]
    /\ fs' = [fs EXCEPT ![Abspath(IF self.fileobj THEN sink.name ELSE self.path)] =
                             [exists |-> TRUE, members |-> <<>>]]
    /\ handle' = IF self.fileobj THEN handle ELSE "open"
    /\ pc' = "opened"
    /\ UNCHANGED <<pre, sink, self, err, at, next, rd, ix, tmp>>

\* GetOutputFileobj as it would be if line 225 opened the path target with "ab"
GetOutputFileobjAppends ==
    /\ pc = "checked"
    /\ \/ /\ tar' = [open |-> FALSE,
                      mode |-> IF self.fileobj THEN "a" ELSE "w",
                      archive_name |-> GetArchiveName,
                      file |-> Abspath(IF self.fileobj THEN sink.name ELSE self.path)]
          /\ IF self.fileobj
             THEN UNCHANGED <<fs, handle>>
             ELSE /\ fs' = [fs EXCEPT ![Abspath(self.path)].exists = TRUE]
                  /\ handle' = "open"
          /\ pc' = "opened"
          /\ UNCHANGED <<err, at>>
       \/ /\ pc' = "raised"
          /\ err' = "SigMFFileError"
          /\ at' = "_get_output_fileobj"
          /\ UNCHANGED <<fs, handle, tar>>
    /\ UNCHANGED <<pre, sink, self, next, rd, ix, tmp>>

\* lines 86-88: archive_name, mode and _get_output_fileobj; a path target is
\* opened "wb", which creates or truncates the file
GetOutputFileobj ==
    /\ pc = "checked"
    /\ IF self.fileobj /\ self.path = <<>> /\ ~HasName(sink)
       \* line 199: self.fileobj.name raises AttributeError
       THEN /\ pc' = "raised"
            /\ err' = "AttributeError"
            /\ at' = "_get_archive_name"
            /\ UNCHANGED <<fs, handle, tar>>
       ELSE \/ /\ tar' = [open |-> FALSE,
                           mode |-> IF self.fileobj THEN "a" ELSE "w",
                           archive_name |-> GetArchiveName,
                           file |-> Abspath(IF self.fileobj THEN sink.name ELSE self.path)]
               /\ IF self.fileobj
                  THEN UNCHANGED <<fs, handle>>          \* fileobj.write(bytes())
                  ELSE /\ fs' = [fs EXCEPT ![Abspath(self.path)] =
                                               [exists |-> TRUE, members |-> <<>>]]
                       /\ handle' = "open"
               /\ pc' = "opened"
               /\ UNCHANGED <<err, at>>
            \* lines 208-216: open(self.path, "wb") or fileobj.write(bytes()) raises
            \* and the bare except raises SigMFFileError in its place
            \/ /\ pc' = "raised"
               /\ err' = "SigMFFileError"
               /\ at' = "_get_output_fileobj"
               /\ UNCHANGED <<fs, handle, tar>>
    /\ UNCHANGED <<pre, sink, self, next, rd, ix, tmp>>

\* lines 89-97: TarFile(mode); mode "a" on a file that holds no container raises
\* ReadError and the TarFile is made again with mode "w"
OpenTar ==
    /\ pc = "opened"
    /\ tar' = [tar EXCEPT !.open = TRUE,
                          !.mode = IF tar.mode = "a" /\ fs[tar.file].members = <<>>
                                   THEN "w" ELSE tar.mode]
    /\ pc' = "tar"
    /\ UNCHANGED <<fs, pre, sink, self, err, at, handle, next, rd, ix, tmp>>

\* the position of the file object after `members` were written through it
EndOf(members) == Len(TarBytes(members))

\* TarFile.addfile: the member is written at the end of the container
AddMembers(ms) ==
    /\ fs' = [fs EXCEPT ![tar.file].members = @ \o ms]
    /\ sink' = IF self.fileobj
               THEN [sink EXCEPT !.pos = EndOf(fs[tar.file].members \o ms)]
               ELSE sink

\* lines 106-109: the Collection, if any, is dumped into a NamedTemporaryFile
StageCollection ==
    /\ pc = "tar"
    /\ IF Truthy(self.collection)
       THEN /\ tmp' = tmp \cup {"tmpfile"}
            /\ pc' = "collection"
            /\ UNCHANGED next
       ELSE /\ pc' = "recs"
            /\ next' = 1
            /\ UNCHANGED tmp
    /\ UNCHANGED <<fs, pre, sink, self, err, at, tar, handle, rd, ix>>

\* lines 110-113: the staged Collection is added and the `with` block is left,
\* which removes the temporary file
AddCollection ==
    /\ pc = "collection"
    /\ AddMembers(<<CollectionMember(tar.archive_name, self.collection)>>)
    /\ tmp' = tmp \ {"tmpfile"}
    /\ pc' = "recs"
    /\ next' = 1
    /\ UNCHANGED <<pre, self, err, at, tar, handle, rd, ix>>

\* what `for sigmffile in self.sigmffiles` yields at line 115: a list is iterated
\* from its start again; a one-shot iterator was exhausted by the loop of
\* _check_input (line 138), which ran to its end when no check failed
Loop == IF self.kind = "iterator" THEN <<>> ELSE self.sigmffiles

\* open(sigmf_md_path, "w") under the fresh staging directory raises
\* FileNotFoundError when sigmffile.name has a directory part
StagingFails(r) == Split(r.name)[1] # <<>>

\* StageRecording as it would be with tempfile.mkdtemp() in place of the
\* `with tempfile.TemporaryDirectory()` of line 116
StageRecordingMkdtemp ==
    /\ pc = "recs"
    /\ next <= Len(Loop)
    /\ tmp' = tmp \cup {"tmpdir"}
    /\ IF StagingFails(Loop[next])
       THEN /\ pc' = "raised"
            /\ err' = "FileNotFoundError"
            /\ at' = "staging"
       ELSE \/ /\ pc' = "staged"
               /\ UNCHANGED <<err, at>>
            \/ /\ pc' = "raised"
               /\ err' = "FileNotFoundError"
               /\ at' = "copy"
    /\ UNCHANGED <<fs, pre, sink, self, tar, handle, next, rd, ix>>

\* lines 115-125: a TemporaryDirectory is made, the metadata is dumped into it
\* and the data file copied; an exception of open() or shutil.copy leaves the
\* `with` block, which removes the directory, and reaches the caller
StageRecording ==
    /\ pc = "recs"
    /\ next <= Len(Loop)
    /\ IF StagingFails(Loop[next])
       THEN /\ pc' = "raised"
            /\ err' = "FileNotFoundError"
            /\ at' = "staging"
            /\ UNCHANGED tmp
       ELSE \/ /\ tmp' = tmp \cup {"tmpdir"}
               /\ pc' = "staged"
               /\ UNCHANGED <<err, at>>
            \* shutil.copy cannot read sigmffile.data_file
            \/ /\ pc' = "raised"
               /\ err' = "FileNotFoundError"
               /\ at' = "copy"
               /\ UNCHANGED tmp
    /\ UNCHANGED <<fs, pre, sink, self, tar, handle, next, rd, ix>>

\* line 126: the staging directory is added and the `with` block is left, which
\* removes the directory
AddRecording ==
    /\ pc = "staged"
    /\ AddMembers(RecordingMembers(Loop[next]))
    /\ tmp' = tmp \ {"tmpdir"}
    /\ next' = next + 1
    /\ pc' = "recs"
    /\ UNCHANGED <<pre, self, err, at, tar, handle, rd, ix>>

\* Finalize as it would be if line 130 closed the target whoever had opened it
FinalizeClosesAlways ==
    /\ pc = "recs"
    /\ next > Len(Loop)
    /\ tar' = [tar EXCEPT !.open = FALSE]
    /\ IF ~self.fileobj
       THEN /\ handle' = "closed"
            /\ UNCHANGED sink
       ELSE /\ sink' = [sink EXCEPT !.closed = TRUE]
            /\ UNCHANGED handle
    /\ self' = [self EXCEPT !.path = tar.file]
    /\ pc' = "done"
    /\ UNCHANGED <<fs, pre, err, at, next, rd, ix, tmp>>

\* lines 128-134: close the TarFile; close the own handle or rewind the caller's
\* file object; self.path becomes the TarFile's name, the absolute path of the
\* file object's name
Finalize ==
    /\ pc = "recs"
    /\ next > Len(Loop)
    /\ tar' = [tar EXCEPT !.open = FALSE]
    /\ IF ~self.fileobj
       THEN /\ handle' = "closed"
            /\ UNCHANGED sink
       ELSE /\ sink' = [sink EXCEPT !.pos = 0]
            /\ UNCHANGED handle
    /\ self' = [self EXCEPT !.path = IF self.fileobj /\ ~HasName(sink)
                                      THEN <<>>        \* TarFile.name is None
                                      ELSE tar.file]
    /\ pc' = "done"
    /\ UNCHANGED <<fs, pre, err, at, next, rd, ix, tmp>>

-----------------------------------------------------------------------------
(* SigMFArchiveReader.__init__ *)

\* the locals of the loop over tar_obj.getmembers()
ReaderStart ==
    [json_contents |-> [set |-> FALSE, text |-> Dump(MetaBad)],
     data_offset_size |-> [set |-> FALSE, offset |-> 0, size |-> 0],
     sigmffile_name |-> <<>>,
     sigmffiles |-> <<>>,
     data_found |-> FALSE,
     collection_metadata |-> NoCollection,
     err |-> ""]

\* ReadMember as it would be if lines 77-80 raised instead of printing
ReadMemberRejectsOthers(st, members, k) ==
    LET memb == members[k]
    IN  IF memb.type = "dir" THEN st
        ELSE IF memb.type = "file"
        THEN IF EndsWith(memb.name, SIGMF_METADATA_EXT)
             THEN [st EXCEPT !.json_contents = [set |-> TRUE, text |-> Dump(memb.meta)],
                             !.sigmffile_name = SplitExt(Split(memb.name)[2])[1]]
             ELSE IF EndsWith(memb.name, SIGMF_DATASET_EXT)
             THEN [st EXCEPT !.data_offset_size =
                                 [set |-> TRUE, offset |-> OffsetData(members, k),
                                  size |-> memb.size],
                             !.data_found = TRUE]
             ELSE IF EndsWith(memb.name, SIGMF_COLLECTION_EXT)
             THEN [st EXCEPT !.collection_metadata =
                                 [given |-> TRUE, streams |-> memb.streams]]
             ELSE [st EXCEPT !.err = "SigMFFileError"]
        ELSE [st EXCEPT !.err = "SigMFFileError"]

\* ReadMember as it would be without the os.path.split of line 69
ReadMemberKeepsFolder(st, members, k) ==
    LET memb == members[k]
    IN  IF memb.type = "dir" THEN st
        ELSE IF memb.type = "file"
        THEN IF EndsWith(memb.name, SIGMF_METADATA_EXT)
             THEN [st EXCEPT !.json_contents = [set |-> TRUE, text |-> Dump(memb.meta)],
                             !.sigmffile_name = SplitExt(memb.name)[1]]
             ELSE IF EndsWith(memb.name, SIGMF_DATASET_EXT)
             THEN [st EXCEPT !.data_offset_size =
                                 [set |-> TRUE, offset |-> OffsetData(members, k),
                                  size |-> memb.size],
                             !.data_found = TRUE]
             ELSE IF EndsWith(memb.name, SIGMF_COLLECTION_EXT)
             THEN [st EXCEPT !.collection_metadata =
                                 [given |-> TRUE, streams |-> memb.streams]]
             ELSE st
        ELSE st

\* lines 54-80: what one member sets
ReadMember(st, members, k) ==
    LET memb == members[k]
    IN  IF memb.type = "dir" THEN st
        ELSE IF memb.type = "file"
        THEN IF EndsWith(memb.name, SIGMF_METADATA_EXT)
             THEN [st EXCEPT !.json_contents = [set |-> TRUE, text |-> Dump(memb.meta)],
                             !.sigmffile_name = SplitExt(Split(memb.name)[2])[1]]
             ELSE IF EndsWith(memb.name, SIGMF_DATASET_EXT)
             THEN [st EXCEPT !.data_offset_size =
                                 [set |-> TRUE, offset |-> OffsetData(members, k),
                                  size |-> memb.size],
                             !.data_found = TRUE]
             ELSE IF EndsWith(memb.name, SIGMF_COLLECTION_EXT)
             THEN [st EXCEPT !.collection_metadata =
                                 [given |-> TRUE, streams |-> memb.streams]]
             ELSE st
        ELSE st

\* PairUp as it would be if line 95 were missing: the dataset range stays pending
PairUpKeepsRange(st) ==
    IF st.data_offset_size.set /\ st.json_contents.set
    THEN LET sigmffile == [name |-> st.sigmffile_name,
                           meta |-> Loads(st.json_contents.text),
                           offset |-> st.data_offset_size.offset,
                           length |-> st.data_offset_size.size]
         IN  IF ~Validates(sigmffile)
             THEN [st EXCEPT !.err = "ValidationError"]
             ELSE [st EXCEPT !.sigmffiles = Append(@, sigmffile),
                             !.json_contents = ReaderStart.json_contents,
                             !.sigmffile_name = <<>>]
    ELSE st

\* lines 82-97: with both a metadata text and a dataset range pending, a
\* SigMFFile is made, validated, bound to the range and appended
PairUp(st) ==
    IF st.data_offset_size.set /\ st.json_contents.set
    THEN LET sigmffile == [name |-> st.sigmffile_name,
                           meta |-> Loads(st.json_contents.text),
                           offset |-> st.data_offset_size.offset,
                           length |-> st.data_offset_size.size]
         IN  IF ~Validates(sigmffile)
             THEN [st EXCEPT !.err = "ValidationError"]
             ELSE [st EXCEPT !.sigmffiles = Append(@, sigmffile),
                             !.data_offset_size = ReaderStart.data_offset_size,
                             !.json_contents = ReaderStart.json_contents,
                             !.sigmffile_name = <<>>]
    ELSE st

\* lines 53-97: the loop; a directory member `continue`s past the pairing
RECURSIVE ReadMembers(_, _, _)
ReadMembers(st, members, k) ==
    IF k > Len(members) \/ st.err # "" THEN st
    ELSE IF members[k].type = "dir" THEN ReadMembers(st, members, k + 1)
    ELSE ReadMembers(PairUp(ReadMember(st, members, k)), members, k + 1)

\* ReadArchive as it would be if line 109 tested `not self.sigmffiles`
ReadArchiveNeedsRecording(members) ==
    LET st == ReadMembers(ReaderStart, members, 1)
    IN  IF st.err # ""
        THEN [NoReader EXCEPT !.state = "raised", !.err = st.err]
        ELSE IF st.sigmffiles = <<>>
        THEN [NoReader EXCEPT !.state = "raised", !.err = "SigMFFileError"]
        ELSE [state |-> "ok", err |-> "", path |-> <<>>, sigmffiles |-> st.sigmffiles,
              collection |-> IF st.collection_metadata.given
                             THEN st.collection_metadata ELSE NoCollection]

\* lines 46-110 on an opened container
ReadArchive(members) ==
    LET st == ReadMembers(ReaderStart, members, 1)
    IN  IF st.err # ""
        THEN [NoReader EXCEPT !.state = "raised", !.err = st.err]
        ELSE IF ~st.data_found
        THEN [NoReader EXCEPT !.state = "raised", !.err = "SigMFFileError"]
        ELSE [state |-> "ok", err |-> "", path |-> <<>>, sigmffiles |-> st.sigmffiles,
              collection |-> IF st.collection_metadata.given
                             THEN st.collection_metadata ELSE NoCollection]

\* SigMFArchiveReader(path): line 30 and lines 33-38, then the loop;
\* tarfile.open of a file that does not exist raises FileNotFoundError
ReadPath(path) ==
    LET reader ==
            IF ~EndsWith(path, SIGMF_ARCHIVE_EXT)
            THEN [NoReader EXCEPT !.state = "raised", !.err = "SigMFFileError"]
            ELSE IF Abspath(path) \notin Files \/ ~fs[Abspath(path)].exists
            THEN [NoReader EXCEPT !.state = "raised", !.err = "FileNotFoundError"]
            ELSE ReadArchive(fs[Abspath(path)].members)
    IN  [reader EXCEPT !.path = path]

\* The Writer's result is read back: by the archive's path (archive.path), or,
\* when the caller gave a file object, through it (archive_buffer).
Read(via) ==
    /\ pc = "done"
    /\ rd.state = "idle"
    /\ \/ /\ via = "path"
          /\ rd' = ReadPath(self.path)
       \/ /\ via = "archive_buffer"
          /\ self.fileobj
          /\ rd' = ReadArchive(fs[Abspath(sink.name)].members)
    /\ UNCHANGED <<fs, pre, sink, pc, self, err, at, tar, handle, next, ix, tmp>>

\* The members a container made with another tool can hold: directories,
\* metadata and dataset members of the base names a, b and c (the metadata of c
\* does not validate), a collection manifest, a file of no SigMF extension and
\* a symbolic link
ForeignMembers ==
    { Member(<<"a">>, "dir", 493, "dir", MetaBad, <<>>, 0),
      Member(Join(<<"a">>, <<"a">> \o SIGMF_METADATA_EXT), "file", 420, "meta", MetaA, <<>>, 1),
      Member(Join(<<"a">>, <<"a">> \o SIGMF_DATASET_EXT), "file", 420, "data", MetaA, <<>>, 1),
      Member(Join(<<"b">>, <<"b">> \o SIGMF_METADATA_EXT), "file", 420, "meta", MetaB, <<>>, 1),
      Member(Join(<<"b">>, <<"b">> \o SIGMF_DATASET_EXT), "file", 420, "data", MetaB, <<>>, 2),
      Member(<<"c">> \o SIGMF_METADATA_EXT, "file", 420, "meta", MetaBad, <<>>, 1),
      Member(<<"x">> \o SIGMF_COLLECTION_EXT, "file", 420, "coll", MetaBad,
             <<Sha512(Dump(MetaA))>>, 1),
      Member(<<"R", "E", "A", "D", "M", "E">>, "file", 420, "other", MetaBad, <<>>, 1),
      Member(<<"l">> \o SIGMF_COLLECTION_EXT, "symlink", 511, "other", MetaBad, <<>>, 0) }

\* the containers SigMFArchiveReader can be handed
Containers == SeqsUpTo(MaxMembers, ForeignMembers)

\* the path of the container
ContainerPath == <<"x">> \o SIGMF_ARCHIVE_EXT

\* the `path` argument of SigMFArchiveReader: the container's path, the
\* container's path without its extension, the path of no file
ReaderPaths == { ContainerPath, <<"x">>, <<"t">> \o SIGMF_ARCHIVE_EXT }

\* a file system that holds one container, at ContainerPath
ContainerFs(members) ==
    [f \in Files |-> IF f = Abspath(ContainerPath)
                     THEN [exists |-> TRUE, members |-> members]
                     ELSE NoFile]

\* SigMFArchiveReader(path) on a container that is already there
ReadContainer(path) ==
    /\ pc = "idle"
    /\ rd.state = "idle"
    /\ rd' = ReadPath(path)
    /\ UNCHANGED <<fs, pre, sink, pc, self, err, at, tar, handle, next, ix, tmp>>

-----------------------------------------------------------------------------
(* The Capture Index and the sample reads of a Recording.  Capture positions
   are counted from 1 here, from 0 in the program. *)

\* bytes of one sample of one channel: bytes per component, twice for complex
get_sample_size(meta) == meta.width * (IF meta.complex THEN 2 ELSE 1)

\* core:num_channels
get_num_channels(meta) == meta.num_channels

\* bytes of one sample group: one sample of every channel
SampleWidth(meta) == get_sample_size(meta) * get_num_channels(meta)

\* core:sample_start of the capture at position index
get_capture_start(meta, index) == meta.captures[index].start_index

\* the sum of core:header_bytes over a capture list
RECURSIVE SumHeaderBytes(_)
SumHeaderBytes(captures) ==
    IF captures = <<>> THEN 0
    ELSE captures[1].header_bytes + SumHeaderBytes(Tail(captures))

\* a start-byte computation that skips only the capture's own header
RECURSIVE StartByteOwnHeader(_, _)
StartByteOwnHeader(meta, index) ==
    IF index = 0 THEN 0
    ELSE LET prev_start_sample ==
                 IF index = 1 THEN 0 ELSE get_capture_start(meta, index - 1)
         IN  StartByteOwnHeader(meta, index - 1)
             - (IF index = 1 THEN 0 ELSE meta.captures[index - 1].header_bytes)
             + meta.captures[index].header_bytes
             + (get_capture_start(meta, index) - prev_start_sample) * SampleWidth(meta)

\* the first byte of the capture at position index: the spans of all prior
\* captures (their headers and their samples), then this capture's header
RECURSIVE StartByte(_, _)
StartByte(meta, index) ==
    IF index = 0 THEN 0
    ELSE LET prev_start_sample ==
                 IF index = 1 THEN 0 ELSE get_capture_start(meta, index - 1)
         IN  StartByte(meta, index - 1)
             + meta.captures[index].header_bytes
             + (get_capture_start(meta, index) - prev_start_sample) * SampleWidth(meta)

\* boundaries whose end is the next capture's sample_start in bytes, headers forgotten
BoundarysEndWithoutHeaders(signal, index) ==
    LET meta == signal.meta
        start_byte == StartByte(meta, index)
        end_byte == IF index = Len(meta.captures)
                    THEN signal.length - meta.trailing
                    ELSE get_capture_start(meta, index + 1) * SampleWidth(meta)
    IN  <<start_byte, end_byte>>

\* (start_byte, end_byte) of the capture at position index: the end is where the
\* next capture's region starts, or the end of usable data for the last capture
get_capture_byte_boundarys(signal, index) ==
    LET meta == signal.meta
        start_byte == StartByte(meta, index)
        end_byte == IF index = Len(meta.captures)
                    THEN signal.length - meta.trailing
                    ELSE start_byte
                         + (get_capture_start(meta, index + 1)
                            - get_capture_start(meta, index)) * SampleWidth(meta)
    IN  <<start_byte, end_byte>>

\* a count that forgets the header bytes
CountSamplesWithHeaders(signal) ==
    ((signal.length - signal.meta.trailing)
        \div get_sample_size(signal.meta)) \div get_num_channels(signal.meta)

\* the number of sample groups of the dataset: the usable byte length (without
\* trailing bytes and without any capture's header bytes) over the sample width
count_samples(signal) ==
    LET header_bytes == SumHeaderBytes(signal.meta.captures)
        file_data_size == signal.length - signal.meta.trailing - header_bytes
    IN  (file_data_size \div get_sample_size(signal.meta))
            \div get_num_channels(signal.meta)

Min(a, b) == IF a <= b THEN a ELSE b

Max(a, b) == IF a >= b THEN a ELSE b

\* the Sample Decoder on the bound dataset: at most nsamples sample groups from
\* byte offset first_byte, stopping at the end of the dataset.  A sample group
\* is the tuple of the dataset bytes it is decoded from.
ReadDatafile(signal, first_byte, nsamples) ==
    LET width == SampleWidth(signal.meta)
        data == DataBytes(signal)
        in_file == IF first_byte < 0 \/ first_byte > signal.length THEN 0
                   ELSE (signal.length - first_byte) \div width
        n == Max(0, Min(nsamples, in_file))
    IN  [j \in 1..n |->
            SubSeq(data, first_byte + (j - 1) * width + 1, first_byte + j * width)]

\* a read in a capture that trusts the requested count
ReadSamplesInCaptureUntruncated(signal, index, relative_start, count) ==
    LET cb == get_capture_byte_boundarys(signal, index)
        width == SampleWidth(signal.meta)
        first_byte == cb[1] + relative_start * width
        inside == IF cb[2] > first_byte THEN (cb[2] - first_byte) \div width ELSE 0
    IN  ReadDatafile(signal, first_byte, IF count = -1 THEN inside ELSE count)

\* read_samples_in_capture(index, relative_start, count); count = -1 asks for
\* all of them.  The request is resolved to byte offsets through the capture's
\* boundaries and truncated to the capture.
read_samples_in_capture(signal, index, relative_start, count) ==
    LET cb == get_capture_byte_boundarys(signal, index)
        width == SampleWidth(signal.meta)
        first_byte == cb[1] + relative_start * width
        inside == IF cb[2] > first_byte THEN (cb[2] - first_byte) \div width ELSE 0
    IN  ReadDatafile(signal, first_byte,
                     IF count = -1 THEN inside ELSE Min(count, inside))

\* the position of the capture owning whole-dataset sample index idx: the last
\* capture that starts at or before it; 0 when no capture does
OwningCapture(meta, idx) ==
    LET starts == { k \in 1..Len(meta.captures) : get_capture_start(meta, k) <= idx }
    IN  IF starts = {} THEN 0 ELSE CHOOSE k \in starts : \A j \in starts : j <= k

\* the byte offset of whole-dataset sample index idx, through the Index
SampleByte(signal, idx) ==
    LET k == OwningCapture(signal.meta, idx)
    IN  IF k = 0 THEN idx * SampleWidth(signal.meta)
        ELSE get_capture_byte_boundarys(signal, k)[1]
             + (idx - get_capture_start(signal.meta, k)) * SampleWidth(signal.meta)

\* a whole-dataset read that takes sample index times sample width for the
\* byte offset, as for a conforming dataset
ReadSamplesConforming(signal, start_index, count) ==
    LET total == count_samples(signal)
        n == IF count = -1 THEN total - start_index ELSE count
    IN  IF count = 0 \/ n < 0 \/ start_index + n > total
        THEN [err |-> "IOError", val |-> <<>>]
        ELSE [err |-> "",
              val |-> ReadDatafile(signal, start_index * SampleWidth(signal.meta), n)]

\* read_samples(start_index, count); count = -1 asks for all of them.  Every
\* sample index is resolved to its owning capture.  A request for no sample or
\* for samples past the last one fails.
read_samples(signal, start_index, count) ==
    LET total == count_samples(signal)
        n == IF count = -1 THEN total - start_index ELSE count
    IN  IF count = 0 \/ n < 0 \/ start_index + n > total
        THEN [err |-> "IOError", val |-> <<>>]
        ELSE [err |-> "",
              val |-> [j \in 1..n |->
                          ReadDatafile(signal,
                                       SampleByte(signal, start_index + j - 1), 1)[1]]]

\* the components of a sample group: consecutive runs of meta.width bytes
Components(meta, group) ==
    [i \in 1..(Len(group) \div meta.width) |->
        SubSeq(group, (i - 1) * meta.width + 1, i * meta.width)]

\* a decoder that takes the channels apart before it pairs I with Q
ItemsChannelsFirst(meta, group) ==
    LET comps == Components(meta, group)
    IN  IF meta.complex
        THEN [i \in 1..(Len(comps) \div 2) |->
                 [I |-> comps[i], Q |-> comps[(Len(comps) \div 2) + i]]]
        ELSE [i \in 1..Len(comps) |-> [I |-> comps[i], Q |-> <<>>]]

\* the samples of a sample group: for complex data consecutive component pairs
\* (I, Q) are combined first; a real sample has no Q
Items(meta, group) ==
    LET comps == Components(meta, group)
    IN  IF meta.complex
        THEN [i \in 1..(Len(comps) \div 2) |-> [I |-> comps[2 * i - 1], Q |-> comps[2 * i]]]
        ELSE [i \in 1..Len(comps) |-> [I |-> comps[i], Q |-> <<>>]]

\* the Sample Decoder's result for the sample groups read: the samples are
\* interleaved round-robin across the channels, so a group is one row
\* (sample, channel); with one channel the result is one-dimensional
Unpack(meta, groups) ==
    [j \in 1..Len(groups) |->
        IF get_num_channels(meta) = 1 THEN Items(meta, groups[j])[1]
        ELSE Items(meta, groups[j])]

\* len(SigMFArchiveReader)
ReaderLen(reader) == Len(reader.sigmffiles)

\* the inputs of the Capture Index
SampleStarts == {0, 1, 2}

HeaderBytes == {0, 1}

TrailingBytes == {0, 1}

ComponentBytes == {1, 2}

NumChannels == {1, 2}

RelativeStarts == {0, 1}

Counts == {-1, 1, 2}

CaptureLists ==
    UNION { [1..k -> { Capture(s, h) : s \in SampleStarts, h \in HeaderBytes }] :
                k \in 1..MaxCaptures }

\* the recordings of test_captures_checking: ru8 datasets of 256 bytes
TEST_U8_META0 == Metadata(TRUE, 1, FALSE, 1, 0, <<Capture(0, 0), Capture(0, 0)>>)

TEST_U8_META1 == Metadata(TRUE, 1, FALSE, 1, 32, <<Capture(0, 32), Capture(128, 0)>>)

TEST_U8_META2 == Metadata(TRUE, 1, FALSE, 1, 16, <<Capture(0, 32), Capture(128, 16)>>)

TEST_U8_META3 ==
    Metadata(TRUE, 1, FALSE, 1, 0, <<Capture(0, 32), Capture(32, 0), Capture(128, 32)>>)

TEST_U8_META4 == Metadata(TRUE, 1, FALSE, 2, 32, <<Capture(0, 32), Capture(64, 0)>>)

TestSignals ==
    { Recording(<<"a">>, TRUE, m, 256) :
          m \in {TEST_U8_META0, TEST_U8_META1, TEST_U8_META2, TEST_U8_META3,
                 TEST_U8_META4} }

\* the recording of test_multichannel_seek: cu16_le, 3 channels, 18 components
SEEK_META == Metadata(TRUE, 2, TRUE, 3, 0, <<Capture(0, 0)>>)

SeekSignal == Recording(<<"a">>, TRUE, SEEK_META, 36)

Signals ==
    { Recording(<<"a">>, TRUE, Metadata(TRUE, w, c, n, t, caps), len) :
          w \in ComponentBytes, c \in BOOLEAN, n \in NumChannels,
          t \in TrailingBytes, caps \in CaptureLists, len \in 0..MaxLength }
    \cup TestSignals \cup {SeekSignal}

NoCall == [op |-> "", index |-> 0, start |-> 0, count |-> 0]

NoRet == [err |-> "", val |-> <<>>]

NoIx == [signal |-> Recording(<<>>, FALSE, MetaBad, 0), call |-> NoCall, ret |-> NoRet]

\* The calls on a Recording.  Each behaviour makes one: no call changes the
\* Recording, so a later call returns what it would have returned as the first.

\* signal.get_capture_byte_boundarys(index)
GetCaptureByteBoundarys(index) ==
    /\ ix.call = NoCall
    /\ ix' = [ix EXCEPT
                !.call = [op |-> "get_capture_byte_boundarys", index |-> index,
                          start |-> 0, count |-> 0],
                !.ret = [err |-> "", val |-> get_capture_byte_boundarys(ix.signal, index)]]
    /\ UNCHANGED avars

\* signal._count_samples()
CountSamples ==
    /\ ix.call = NoCall
    /\ ix' = [ix EXCEPT
                !.call = [op |-> "count_samples", index |-> 0, start |-> 0, count |-> 0],
                !.ret = [err |-> "", val |-> count_samples(ix.signal)]]
    /\ UNCHANGED avars

\* signal.read_samples_in_capture(index, relative_start, count)
ReadSamplesInCapture(index, relative_start, count) ==
    /\ ix.call = NoCall
    /\ ix' = [ix EXCEPT
                !.call = [op |-> "read_samples_in_capture", index |-> index,
                          start |-> relative_start, count |-> count],
                !.ret = [err |-> "",
                         val |-> read_samples_in_capture(ix.signal, index,
                                                         relative_start, count)]]
    /\ UNCHANGED avars

\* signal.read_samples(start_index, count): val holds the sample groups read,
\* rows what the Sample Decoder makes of them
ReadSamples(start_index, count) ==
    /\ ix.call = NoCall
    /\ ix' = [ix EXCEPT
                !.call = [op |-> "read_samples", index |-> 0,
                          start |-> start_index, count |-> count],
                !.ret = LET r == read_samples(ix.signal, start_index, count)
                        IN  [err |-> r.err, val |-> r.val,
                             rows |-> Unpack(ix.signal.meta, r.val)]]
    /\ UNCHANGED avars

\* signal.archive() into a fresh archive, then SigMFArchiveReader on it
ArchiveAndReadBack ==
    /\ ix.call = NoCall
    /\ ix' = [ix EXCEPT
                !.call = [op |-> "archive", index |-> 0, start |-> 0, count |-> 0],
                !.ret = [err |-> "",
                         val |-> ReadArchive(RecordingMembers(ix.signal))]]
    /\ UNCHANGED avars

-----------------------------------------------------------------------------
(* The specifications *)

Init ==
    /\ fs \in {FreshFs, PriorFs}
    /\ pre = fs
    /\ sink = NoSink
    /\ pc = "idle"
    /\ self = [sigmffiles |-> <<>>, kind |-> "list", collection |-> NoCollection,
               path |-> <<>>,
               fileobj |-> FALSE, path_arg |-> <<>>]
    /\ err = ""
    /\ at = ""
    /\ tar = NoTar
    /\ handle = "none"
    /\ next = 0
    /\ rd = NoReader
    /\ ix = NoIx
    /\ tmp = {}

Next ==
    \/ /\ pc = "idle"
       /\ \E R \in RecLists, c \in Collections, path \in Paths, f \in {<<>>} \cup SinkNames :
              Call(Sigmffiles("list", R), c, path, f)
    \/ /\ pc = "idle"
       /\ \E R \in FileCollections, f \in SinkNames : FileCollectionArchive(R, f)
    \/ GetOutputFileobj
    \/ OpenTar
    \/ StageCollection
    \/ AddCollection
    \/ StageRecording
    \/ AddRecording
    \/ Finalize
    \/ /\ pc = "done"
       /\ \E via \in {"path", "archive_buffer"} : Read(via)

Spec == Init /\ [][Next]_vars

\* SigMFArchive with every kind of `sigmffiles` argument and of file object
NextArgs ==
    \/ /\ pc = "idle"
       /\ \E sigmffiles \in SigmffilesArguments, c \in Collections, path \in Paths,
              f \in {<<>>} \cup FileObjects :
              Call(sigmffiles, c, path, f)
    \/ GetOutputFileobj
    \/ OpenTar
    \/ StageCollection
    \/ AddCollection
    \/ StageRecording
    \/ AddRecording
    \/ Finalize
    \/ /\ pc = "done"
       /\ \E via \in {"path", "archive_buffer"} : Read(via)

SpecArgs == Init /\ [][NextArgs]_vars

\* a Recording under the Capture Index; no archive is being written
InitIdx ==
    /\ fs = FreshFs
    /\ pre = fs
    /\ sink = NoSink
    /\ pc = "idle"
    /\ self = [sigmffiles |-> <<>>, kind |-> "list", collection |-> NoCollection,
               path |-> <<>>,
               fileobj |-> FALSE, path_arg |-> <<>>]
    /\ err = ""
    /\ at = ""
    /\ tar = NoTar
    /\ handle = "none"
    /\ next = 0
    /\ rd = NoReader
    /\ ix \in { [signal |-> g, call |-> NoCall, ret |-> NoRet] : g \in Signals }
    /\ tmp = {}

NextIdx ==
    \/ \E index \in 1..Len(ix.signal.meta.captures) : GetCaptureByteBoundarys(index)
    \/ CountSamples
    \/ \E index \in 1..Len(ix.signal.meta.captures),
           relative_start \in RelativeStarts, count \in Counts :
           ReadSamplesInCapture(index, relative_start, count)
    \/ \E start_index \in RelativeStarts, count \in Counts :
           ReadSamples(start_index, count)
    \/ ArchiveAndReadBack

SpecIdx == InitIdx /\ [][NextIdx]_vars

\* a container made with any tool; no archive is being written
InitRd ==
    /\ fs \in { ContainerFs(members) : members \in Containers }
    /\ pre = fs
    /\ sink = NoSink
    /\ pc = "idle"
    /\ self = [sigmffiles |-> <<>>, kind |-> "list", collection |-> NoCollection,
               path |-> <<>>,
               fileobj |-> FALSE, path_arg |-> <<>>]
    /\ err = ""
    /\ at = ""
    /\ tar = NoTar
    /\ handle = "none"
    /\ next = 0
    /\ rd = NoReader
    /\ ix = NoIx
    /\ tmp = {}

NextRd == \E path \in ReaderPaths : ReadContainer(path)

SpecRd == InitRd /\ [][NextRd]_vars

-----------------------------------------------------------------------------
(* The claims about the Writer and the Reader *)

\* SigMFArchive was called with an output target
Called == pc # "idle" /\ (self.path # <<>> \/ self.fileobj)

\* every Recording handed in is named, bound to a data file and passes validate()
AllSound ==
    \A k \in 1..Len(self.sigmffiles) :
        /\ self.sigmffiles[k].name # <<>>
        /\ self.sigmffiles[k].data_file
        /\ Validates(self.sigmffiles[k])

\* `path` carries an extension other than .sigmf
WrongExtension ==
    self.path # <<>> /\ HasChar(self.path, ".") /\ ~EndsWith(self.path, SIGMF_ARCHIVE_EXT)

\* the hash of the serialized metadata of the k-th Recording handed in
MetaHash(k) == Sha512(Dump(self.sigmffiles[k].meta))

\* how often h occurs in a sequence
Count(seq, h) == Cardinality({ k \in 1..Len(seq) : seq[k] = h })

\* the output target could not be opened or written, or a data file not be read
IOFailure == at \in {"_get_output_fileobj", "copy"}

\* C1: writing any sequence R of zero or more valid, named, dataset-bound
\* Recordings to a fresh target and reading the result back succeeds and yields
\* exactly len(R) Recordings, in the order of R, each with the metadata of the
\* corresponding input and bound to dataset bytes identical to the input's.
C1_RoundTrip ==
    (Called /\ ~WrongExtension /\ AllSound /\ ~self.collection.given /\ pre = FreshFs) =>
        /\ pc = "raised" => IOFailure
        /\ rd.state # "raised"
        /\ rd.state = "ok" =>
              /\ Len(rd.sigmffiles) = Len(self.sigmffiles)
              /\ \A k \in 1..Len(rd.sigmffiles) :
                    /\ rd.sigmffiles[k].meta = self.sigmffiles[k].meta
                    /\ View(fs[tar.file].members, rd.sigmffiles[k].offset,
                            rd.sigmffiles[k].length)
                         = DataBytes(self.sigmffiles[k])

\* a check of _check_input fails on the arguments of the call
PreconditionFails ==
    \/ WrongExtension
    \/ ~AllSound
    \/ /\ Truthy(self.collection)
       /\ \/ CollectionLen(self.collection) # Len(self.sigmffiles)
          \/ \E k \in 1..Len(self.sigmffiles) : Count(self.collection.streams, MetaHash(k)) = 0

\* nothing of the output target has been opened, truncated, written or moved
TargetUntouched ==
    /\ fs = pre
    /\ handle = "none"
    /\ ~tar.open
    /\ sink.given => (sink.pos = 0 /\ ~sink.closed)

C3_CollectionBijection ==
    (/\ Called
     /\ Truthy(self.collection)
     /\ at \notin {"arguments", "_check_input"}) =>
        \A h \in Hashes :
            Count(self.collection.streams, h)
              = Cardinality({ k \in 1..Len(self.sigmffiles) : MetaHash(k) = h })

\* C4: archiving sound Recordings together with a Collection raises
\* SigMFValidationError whenever the number of Recordings differs from the
\* number of streams, or some Recording's metadata hash is not among the
\* Collection's hashes; a Collection built from exactly the Recordings'
\* metadata validates.
C4_CollectionMismatchDetected ==
    (/\ Called
     /\ AllSound
     /\ ~WrongExtension
     /\ self.collection.given) =>
        /\ (\/ CollectionLen(self.collection) # Len(self.sigmffiles)
            \/ \E k \in 1..Len(self.sigmffiles) :
                   Count(self.collection.streams, MetaHash(k)) = 0)
              => (pc = "raised" /\ err = "SigMFValidationError")
        /\ self.collection.streams = [k \in 1..Len(self.sigmffiles) |-> MetaHash(k)]
              => err # "SigMFValidationError"

-----------------------------------------------------------------------------
(* The claims about the Capture Index, on the Recording ix.signal *)

Sig == ix.signal

Caps == ix.signal.meta.captures

Width ==
    ix.signal.meta.width * (IF ix.signal.meta.complex THEN 2 ELSE 1)
        * ix.signal.meta.num_channels

\* header bytes of the captures at positions 1..k
RECURSIVE HeadersUpTo(_)
HeadersUpTo(k) == IF k = 0 THEN 0 ELSE HeadersUpTo(k - 1) + Caps[k].header_bytes

UsableLength == Sig.length - Sig.meta.trailing - HeadersUpTo(Len(Caps))

Sorted == \A k \in 1..(Len(Caps) - 1) : Caps[k].start_index <= Caps[k + 1].start_index

LongEnough ==
    Sig.length - Sig.meta.trailing
        >= HeadersUpTo(Len(Caps)) + Caps[Len(Caps)].start_index * Width

WellFormed == Sorted /\ Caps[1].start_index = 0 /\ LongEnough

\* where the dataset of a sorted capture list keeps the header of capture j:
\* after the samples before start_index_j and the headers before it
IsHeaderByte(p) ==
    \E j \in 1..Len(Caps) :
        LET first == Caps[j].start_index * Width + HeadersUpTo(j - 1)
        IN  first <= p /\ p < first + Caps[j].header_bytes

IsTrailingByte(p) == Sig.length - Sig.meta.trailing <= p /\ p < Sig.length

\* where the dataset of a sorted capture list keeps sample n: after n samples
\* and the headers of all captures that start at or before n
TrueByte(n) ==
    LET upto == { j \in 1..Len(Caps) : Caps[j].start_index <= n }
    IN  n * Width + HeadersUpTo(IF upto = {} THEN 0
                                ELSE CHOOSE j \in upto : \A i \in upto : i <= j)

TrueSample(n) == [b \in 1..Width |-> <<"data", Sig.meta, TrueByte(n) + b>>]

\* the byte offsets a sample was decoded from
BytesOf(sample) == { sample[b][3] - 1 : b \in 1..Len(sample) }

\* the samples capture k holds
SamplesIn(k) ==
    IF k < Len(Caps) THEN Caps[k + 1].start_index - Caps[k].start_index
    ELSE (Sig.length - Sig.meta.trailing - TrueByte(Caps[k].start_index)) \div Width

RECURSIVE SumWidths(_)
SumWidths(k) ==
    IF k = 0 THEN 0
    ELSE LET cb == get_capture_byte_boundarys(Sig, k)
         IN  SumWidths(k - 1) + (cb[2] - cb[1])

RECURSIVE ConcatCaptures(_)
ConcatCaptures(k) ==
    IF k = 0 THEN <<>>
    ELSE ConcatCaptures(k - 1) \o read_samples_in_capture(Sig, k, 0, -1)

\* C5: the capture at position k owns [start_k, end_k) with start_k = the header
\* bytes of the captures up to and including k plus start_index_k sample widths,
\* and end_k = start_k plus the samples up to the next capture's start_index, or
\* the dataset length minus the trailing bytes for the last capture.
C5_CaptureByteBoundaries ==
    ix.call.op = "get_capture_byte_boundarys" =>
        LET k == ix.call.index
            start == HeadersUpTo(k) + Caps[k].start_index * Width
            end == IF k < Len(Caps)
                   THEN start + (Caps[k + 1].start_index - Caps[k].start_index) * Width
                   ELSE Sig.length - Sig.meta.trailing
        IN  ix.ret.err = "" /\ ix.ret.val = <<start, end>>

\* the third capture of TEST_U8_META3 owns bytes 192..256
C5_Witness ==
    /\ Sig = Recording(<<"a">>, TRUE, TEST_U8_META3, 256)
    /\ ix.call.op = "get_capture_byte_boundarys"
    /\ ix.call.index = 3
    /\ ix.ret.val = <<192, 256>>

\* C6: count_samples() is the dataset length minus the trailing bytes minus all
\* header bytes, divided by the sample width; a complex datatype halves the count
\* of the same bytes and C channels divide it by C; and the count read back
\* through the Archive Reader (its len()) is the count of the recording written.
C6_SampleCount ==
    /\ ix.call.op = "count_samples" =>
          /\ ix.ret.val = UsableLength \div Width
          /\ count_samples([Sig EXCEPT !.meta.complex = TRUE])
                = count_samples([Sig EXCEPT !.meta.complex = FALSE]) \div 2
          /\ ix.ret.val
                = count_samples([Sig EXCEPT !.meta.num_channels = 1])
                     \div Sig.meta.num_channels
    /\ ix.call.op = "archive" =>
          /\ ix.ret.val.state = "ok"
          /\ Len(ix.ret.val.sigmffiles) = 1
          /\ count_samples(ix.ret.val.sigmffiles[1]) = count_samples(Sig)
          /\ ReaderLen(ix.ret.val) = count_samples(Sig)

\* C7 as stated: for a sorted capture list that starts at sample 0 and a dataset
\* long enough, start_k <= end_k, end_k + header_bytes_{k+1} = start_{k+1}, no
\* range holds a header or trailing byte, and the range widths add up to
\* count_samples() sample widths.
C7_AsStated ==
    (ix.call.op = "get_capture_byte_boundarys" /\ WellFormed) =>
        LET k == ix.call.index
            cb == ix.ret.val
        IN  /\ cb[1] <= cb[2]
            /\ k < Len(Caps) =>
                  cb[2] + Caps[k + 1].header_bytes
                     = get_capture_byte_boundarys(Sig, k + 1)[1]
            /\ \A p \in cb[1]..(cb[2] - 1) : ~IsHeaderByte(p) /\ ~IsTrailingByte(p)
            /\ SumWidths(Len(Caps)) = count_samples(Sig) * Width

\* C7: as C7_AsStated, but the range widths add up to the usable byte length,
\* of which count_samples() is the whole number of sample widths: the sum is
\* count_samples() sample widths when the usable length is a multiple of the width.
C7_CapturesPartition ==
    (ix.call.op = "get_capture_byte_boundarys" /\ WellFormed) =>
        LET k == ix.call.index
            cb == ix.ret.val
        IN  /\ cb[1] <= cb[2]
            /\ k < Len(Caps) =>
                  cb[2] + Caps[k + 1].header_bytes
                     = get_capture_byte_boundarys(Sig, k + 1)[1]
            /\ \A p \in cb[1]..(cb[2] - 1) : ~IsHeaderByte(p) /\ ~IsTrailingByte(p)
            /\ SumWidths(Len(Caps)) = UsableLength
            /\ count_samples(Sig) = UsableLength \div Width
            /\ UsableLength % Width = 0
                  => SumWidths(Len(Caps)) = count_samples(Sig) * Width

\* a first capture of one sample, followed by a capture with a header, in a
\* dataset with trailing bytes
C7_Witness ==
    /\ ix.call.op = "get_capture_byte_boundarys"
    /\ WellFormed
    /\ Len(Caps) = 2
    /\ ix.call.index = 1
    /\ Caps[2].header_bytes = 1
    /\ Sig.meta.trailing = 1
    /\ ix.ret.val[1] < ix.ret.val[2]
    /\ count_samples(Sig) = 2

\* C8: on a Recording with a sorted capture list from sample 0 and a dataset
\* long enough, read_samples_in_capture(k) returns exactly the samples
\* start_index_k .. start_index_{k+1} - 1 (to the end of usable data for the
\* last capture), each decoded from bytes inside capture k's range and from no
\* header or trailing byte; and read_samples() returns the concatenation of the
\* per-capture results in capture order.
C8_ReadPerCapture ==
    /\ (/\ ix.call.op = "read_samples_in_capture"
        /\ ix.call.start = 0
        /\ ix.call.count = -1
        /\ WellFormed) =>
          LET k == ix.call.index
              cb == get_capture_byte_boundarys(Sig, k)
          IN  /\ ix.ret.err = ""
              /\ ix.ret.val = [j \in 1..SamplesIn(k) |->
                                  TrueSample(Caps[k].start_index + j - 1)]
              /\ \A j \in 1..Len(ix.ret.val) : \A p \in BytesOf(ix.ret.val[j]) :
                    /\ cb[1] <= p /\ p < cb[2]
                    /\ ~IsHeaderByte(p) /\ ~IsTrailingByte(p)
    /\ (/\ ix.call.op = "read_samples"
        /\ ix.call.start = 0
        /\ ix.call.count = -1
        /\ WellFormed) =>
          /\ ix.ret.err = ""
          /\ ix.ret.val = ConcatCaptures(Len(Caps))

\* read_samples() on the dataset of TEST_U8_META2: 192 samples, the 129th
\* decoded from the byte after the second capture's header
C8_Witness ==
    /\ Sig = Recording(<<"a">>, TRUE, TEST_U8_META2, 256)
    /\ ix.call.op = "read_samples"
    /\ ix.call.start = 0
    /\ ix.call.count = -1
    /\ Len(ix.ret.val) = 192
    /\ BytesOf(ix.ret.val[129]) = {176}

\* C9: read_samples_in_capture(k, relative_start, count) returns no sample with
\* a byte at or beyond end_k, and returns the samples from relative_start up to
\* the capture's end when the request extends past it.
C9_ReadTruncatedToCapture ==
    ix.call.op = "read_samples_in_capture" =>
        LET k == ix.call.index
            cb == get_capture_byte_boundarys(Sig, k)
            first == cb[1] + ix.call.start * Width
            \* the requested samples that lie whole before end_k and in the dataset
            fit == { j \in 1..(MaxLength + 256) :
                        /\ first + j * Width <= cb[2]
                        /\ first + j * Width <= Sig.length
                        /\ ix.call.count # -1 => j <= ix.call.count }
        IN  /\ ix.ret.err = ""
            /\ \A j \in 1..Len(ix.ret.val) : \A p \in BytesOf(ix.ret.val[j]) :
                  cb[1] <= p /\ p < cb[2]
            /\ Len(ix.ret.val) = Cardinality(fit)
            /\ \A j \in 1..Len(ix.ret.val) :
                  BytesOf(ix.ret.val[j])
                     = (first + (j - 1) * Width)..(first + j * Width - 1)

\* two samples asked from the second sample of a first capture of two samples,
\* with a second capture behind it: one comes back
C9_Witness ==
    /\ ix.call.op = "read_samples_in_capture"
    /\ Len(Caps) = 2
    /\ ix.call.index = 1
    /\ ix.call.start = 1
    /\ ix.call.count = 2
    /\ Caps[1].start_index = 0
    /\ Caps[2].start_index = 2
    /\ LongEnough
    /\ Sig.length - Sig.meta.trailing > get_capture_byte_boundarys(Sig, 2)[1]
    /\ Len(ix.ret.val) = 1

\* C10: captures with identical start_index are legal: the boundaries are
\* computed, the earlier of two adjacent captures with the same start_index owns a
\* zero-width range and reads as no samples, the later one's range begins behind
\* its own header and holds the data, and a capture repeated without header
\* bytes leaves count_samples() unchanged; the 256-byte ru8 dataset with the
\* capture {0, header 0} twice counts 256 samples with boundaries (0,0), (0,256).
C10_IdenticalStartIndex ==
    LET k == ix.call.index
        tie == k < Len(Caps) /\ Caps[k].start_index = Caps[k + 1].start_index
        once == [Sig EXCEPT !.meta.captures =
                    SubSeq(Caps, 1, k - 1) \o SubSeq(Caps, k + 1, Len(Caps))]
    IN  /\ (ix.call.op = "get_capture_byte_boundarys" /\ tie) =>
              /\ ix.ret.err = ""
              /\ ix.ret.val[1] = ix.ret.val[2]
              /\ get_capture_byte_boundarys(Sig, k + 1)[1]
                    = ix.ret.val[2] + Caps[k + 1].header_bytes
              /\ Caps[k].header_bytes = 0 => count_samples(once) = count_samples(Sig)
        /\ (ix.call.op = "read_samples_in_capture" /\ tie) =>
              ix.ret.err = "" /\ ix.ret.val = <<>>
        /\ (/\ ix.call.op = "read_samples_in_capture"
            /\ ix.call.start = 0
            /\ ix.call.count = -1
            /\ k > 1
            /\ Caps[k - 1].start_index = Caps[k].start_index
            /\ WellFormed) =>
              ix.ret.val = [j \in 1..SamplesIn(k) |->
                               TrueSample(Caps[k].start_index + j - 1)]
        /\ Sig = Recording(<<"a">>, TRUE, TEST_U8_META0, 256) =>
              /\ ix.call.op = "count_samples" => ix.ret.val = 256
              /\ ix.call.op = "get_capture_byte_boundarys" =>
                    ix.ret.val = (IF k = 1 THEN <<0, 0>> ELSE <<0, 256>>)
              /\ (ix.call.op = "read_samples_in_capture" /\ ix.call.start = 0
                  /\ ix.call.count = -1) =>
                    Len(ix.ret.val) = (IF k = 1 THEN 0 ELSE 256)

\* the second of the two captures of TEST_U8_META0 reads as all 256 samples
C10_Witness ==
    /\ Sig = Recording(<<"a">>, TRUE, TEST_U8_META0, 256)
    /\ ix.call.op = "read_samples_in_capture"
    /\ ix.call.index = 2
    /\ ix.call.start = 0
    /\ ix.call.count = -1
    /\ Len(ix.ret.val) = 256
    /\ get_capture_byte_boundarys(Sig, 1) = <<0, 0>>

\* the bytes of the component at raw component index n of a conforming dataset
RawComponent(n) ==
    [b \in 1..Sig.meta.width |-> <<"data", Sig.meta, n * Sig.meta.width + b>>]

\* sample s of channel c, as the claim addresses it
AddressedSample(s, c) ==
    LET C == Sig.meta.num_channels
    IN  IF Sig.meta.complex
        THEN [I |-> RawComponent(2 * (s * C + c)), Q |-> RawComponent(2 * (s * C + c) + 1)]
        ELSE [I |-> RawComponent(s * C + c), Q |-> <<>>]

Conforming ==
    /\ Len(Caps) = 1
    /\ Caps[1] = Capture(0, 0)
    /\ Sig.meta.trailing = 0

\* C11: in a conforming dataset with C channels, sample s of channel c is
\* decoded from raw component s x C + c (real) or from the components
\* 2 x (s x C + c) and 2 x (s x C + c) + 1 as I and Q (complex); read_samples(i)
\* returns the rows from sample i on, and with C > 1 every row holds C channels.
C11_ChannelComplexAddressing ==
    (ix.call.op = "read_samples" /\ ix.ret.err = "" /\ Conforming) =>
        LET i == ix.call.start
            C == Sig.meta.num_channels
        IN  /\ Len(ix.ret.rows)
                  = (IF ix.call.count = -1 THEN count_samples(Sig) - i ELSE ix.call.count)
            /\ \A r \in 1..Len(ix.ret.rows) :
                  IF C = 1 THEN ix.ret.rows[r] = AddressedSample(i + r - 1, 0)
                  ELSE ix.ret.rows[r] = [c \in 1..C |-> AddressedSample(i + r - 1, c - 1)]

\* test_multichannel_seek: read_samples(start_index=1) of 18 cu16 components in
\* 3 channels gives two rows; the first sample of channel 0 is made of the
\* components 6 and 7
C11_Witness ==
    /\ Sig = SeekSignal
    /\ ix.call.op = "read_samples"
    /\ ix.call.start = 1
    /\ ix.call.count = -1
    /\ Len(ix.ret.rows) = 2
    /\ Len(ix.ret.rows[1]) = 3
    /\ BytesOf(ix.ret.rows[1][1].I) = {12, 13}
    /\ BytesOf(ix.ret.rows[1][1].Q) = {14, 15}
    /\ BytesOf(ix.ret.rows[2][1].I) = {24, 25}

-----------------------------------------------------------------------------
(* The claims about the output path *)

\* the extension of the file name (final path component) of the path argument
ArgExtension == SplitExt(Split(self.path_arg)[2])[2]

\* the checks of _check_input other than the path's pass
OtherChecksPass ==
    /\ AllSound
    /\ ~(Truthy(self.collection)
         /\ (\/ Len(self.collection.streams) # Len(self.sigmffiles)
             \/ \E k \in 1..Len(self.sigmffiles) :
                   Count(self.collection.streams, MetaHash(k)) = 0))

RejectedByCheck == pc = "raised" /\ at = "_check_input"

\* C12: a path whose file name has no extension is accepted and the final
\* archive path is the path with .sigmf appended; a path whose file name has an
\* extension other than .sigmf fails with SigMFFileError; a path that ends in
\* .sigmf is used unchanged.
C12_OutputPathExtension ==
    (Called /\ self.path_arg # <<>>) =>
        /\ (ArgExtension = <<>> /\ OtherChecksPass) =>
              /\ ~RejectedByCheck
              /\ self.path = self.path_arg \o SIGMF_ARCHIVE_EXT
        /\ (ArgExtension # <<>> /\ ArgExtension # SIGMF_ARCHIVE_EXT) =>
              RejectedByCheck /\ err = "SigMFFileError"
        /\ (EndsWith(self.path_arg, SIGMF_ARCHIVE_EXT) /\ OtherChecksPass) =>
              ~RejectedByCheck /\ self.path = self.path_arg

\* C13: archiving with a path p without extension and with p + .sigmf gives the
\* same final archive path, and normalizing a normalized path leaves it unchanged.
C13_ExtensionIdempotent ==
    (Called /\ self.path_arg # <<>> /\ ArgExtension = <<>> /\ OtherChecksPass) =>
        LET twin == EnsurePathHasCorrectExtension(self.path_arg \o SIGMF_ARCHIVE_EXT)
        IN  /\ twin.err = ""
            /\ ~RejectedByCheck
            /\ self.path = twin.path
            /\ EnsurePathHasCorrectExtension(self.path) = [err |-> "", path |-> self.path]

\* C14: after a successful call with a caller-supplied file object, the file
\* object is still open and its position is 0; the Writer closes a
\* caller-supplied file object on no exit path, successful or raising; a target
\* the Writer opened itself, from a path, is closed when the call completes.
C14_Finalize ==
    /\ sink.given => ~sink.closed
    /\ (pc = "done" /\ self.fileobj) => (sink.pos = 0 /\ handle = "none")
    /\ (pc = "done" /\ ~self.fileobj) => handle = "closed"

C14_Witness ==
    /\ pc = "done"
    /\ self.fileobj
    /\ pre = PriorFs
    /\ Len(fs[tar.file].members) > Len(pre[tar.file].members)
    /\ sink.pos = 0
    /\ ~sink.closed

\* the members of the first k Recordings handed in, in order
RECURSIVE MembersUpTo(_)
MembersUpTo(k) ==
    IF k = 0 THEN <<>>
    ELSE MembersUpTo(k - 1) \o RecordingMembers(self.sigmffiles[k])

\* the members one successful call adds: the Collection's, then the Recordings'
MembersOfCall ==
    (IF Truthy(self.collection)
     THEN <<CollectionMember(tar.archive_name, self.collection)>> ELSE <<>>)
    \o MembersUpTo(Len(self.sigmffiles))

\* the file behind the caller's file object
SinkFile == Abspath(sink.name)

\* C15: a call on a file object that already holds a container appends: the
\* members present before the call stay, unchanged and in their order, and are
\* followed by the members of the call; on a file object that holds no container
\* the Writer creates one.
C15_Appending ==
    (Called /\ self.fileobj) =>
        /\ Len(fs[SinkFile].members) >= Len(pre[SinkFile].members)
        /\ SubSeq(fs[SinkFile].members, 1, Len(pre[SinkFile].members))
              = pre[SinkFile].members
        /\ tar.open => tar.mode = (IF pre[SinkFile].members # <<>> THEN "a" ELSE "w")
        /\ pc = "done" => fs[SinkFile].members = pre[SinkFile].members \o MembersOfCall

C15_Witness ==
    /\ pc = "done"
    /\ self.fileobj
    /\ pre = PriorFs
    /\ Len(self.sigmffiles) = 1
    /\ ~self.collection.given
    /\ Len(pre[SinkFile].members) = 3
    /\ Len(fs[SinkFile].members) = 6

\* the target of the call held no member when the call was made (a path target
\* is truncated on opening)
EmptyTarget == ~self.fileobj \/ pre[tar.file].members = <<>>

\* how many members of type t and name n a container holds
CountMembers(members, t, n) ==
    Cardinality({ k \in 1..Len(members) : members[k].type = t /\ members[k].name = n })

\* how many Recordings handed in are named n
CountNamed(n) ==
    Cardinality({ k \in 1..Len(self.sigmffiles) : self.sigmffiles[k].name = n })

\* C16: archiving n Recordings into an empty target produces exactly n directory
\* members, one named <name> per Recording, and exactly 2n regular-file members,
\* <name>/<name>.sigmf-meta and <name>/<name>.sigmf-data per Recording; supplying
\* a Collection adds exactly one member ending in .sigmf-collection and no other.
C16_ContainerLayout ==
    (pc = "done" /\ EmptyTarget) =>
        LET ms == fs[tar.file].members
            n == Len(self.sigmffiles)
            manifests == { k \in 1..Len(ms) : EndsWith(ms[k].name, SIGMF_COLLECTION_EXT) }
        IN  /\ Cardinality({ k \in 1..Len(ms) : ms[k].type = "dir" }) = n
            /\ Cardinality({ k \in 1..Len(ms) : ms[k].type = "file" } \ manifests) = 2 * n
            /\ \A r \in 1..n :
                  LET name == self.sigmffiles[r].name
                  IN  /\ CountMembers(ms, "dir", name) = CountNamed(name)
                      /\ CountMembers(ms, "file", Join(name, name \o SIGMF_METADATA_EXT))
                            = CountNamed(name)
                      /\ CountMembers(ms, "file", Join(name, name \o SIGMF_DATASET_EXT))
                            = CountNamed(name)
            /\ Cardinality(manifests) = (IF self.collection.given THEN 1 ELSE 0)
            /\ Len(ms) = 3 * n + (IF self.collection.given THEN 1 ELSE 0)

\* the positions, in the target, of the members the call has added so far
Added ==
    IF tar.file = <<>> THEN {}
    ELSE { k \in 1..Len(fs[tar.file].members) :
             self.fileobj => k > Len(pre[tar.file].members) }

\* C17: every member the Writer adds to a container (recording directories,
\* metadata files, dataset files and the collection manifest) has mode 0755 if
\* it is a directory and 0644 otherwise, whatever the mode of the staged file.
C17_PermissionBits ==
    \A k \in Added :
        LET m == fs[tar.file].members[k]
        IN  m.mode = (IF m.type = "dir" THEN 493 ELSE 420)

C17_Witness ==
    /\ pc = "done"
    /\ \E k \in Added : fs[tar.file].members[k].kind = "coll"
                          /\ fs[tar.file].members[k].mode = 420
    /\ \E k \in Added : fs[tar.file].members[k].kind = "dir"
                          /\ fs[tar.file].members[k].mode = 493
    /\ \E k \in Added : fs[tar.file].members[k].kind = "data"
    /\ \E k \in Added : fs[tar.file].members[k].kind = "meta"

\* the container that was read
Container == fs[Abspath(ContainerPath)].members

\* the name of a member with directory and extension stripped
BaseName(name) == SplitExt(Split(name)[2])[1]

\* the positions of the members of one kind, by extension
MembersEnding(ext) ==
    { k \in 1..Len(Container) :
        Container[k].type = "file" /\ EndsWith(Container[k].name, ext) }

\* the dataset member the Recording r is bound to, if any
DataMemberOf(r) ==
    { j \in MembersEnding(SIGMF_DATASET_EXT) :
        OffsetData(Container, j) = r.offset /\ Container[j].size = r.length }

\* the metadata members the Recording r can have been made from
MetaMembersOf(r) ==
    { k \in MembersEnding(SIGMF_METADATA_EXT) :
        Loads(Dump(Container[k].meta)) = r.meta /\ BaseName(Container[k].name) = r.name }

\* C18: every Recording SigMFArchiveReader produces is built from one metadata
\* member and one dataset member of the same base name, whatever the order of
\* the members in the container.
C18_PairingByBaseName ==
    (rd.state = "ok" /\ rd.path = ContainerPath) =>
        \A r \in 1..Len(rd.sigmffiles) :
            /\ MetaMembersOf(rd.sigmffiles[r]) # {}
            /\ \E j \in DataMemberOf(rd.sigmffiles[r]) :
                  BaseName(Container[j].name) = rd.sigmffiles[r].name

\* the byte positions of the range (offset, length) of a Recording read
Range(r) == (r.offset + 1)..(r.offset + r.length)

\* C19: every Recording SigMFArchiveReader produces is bound to the byte range
\* (offset, length) that is the data offset and size of one dataset member of
\* the container; distinct Recordings are bound to distinct, pairwise
\* non-overlapping ranges; reading does not modify the container.
C19_InPlaceViews ==
    /\ fs = pre
    /\ (rd.state = "ok" /\ rd.path = ContainerPath) =>
          /\ \A r \in 1..Len(rd.sigmffiles) : DataMemberOf(rd.sigmffiles[r]) # {}
          /\ \A r, q \in 1..Len(rd.sigmffiles) :
                r # q => /\ DataMemberOf(rd.sigmffiles[r]) # DataMemberOf(rd.sigmffiles[q])
                         /\ Range(rd.sigmffiles[r]) \cap Range(rd.sigmffiles[q]) = {}

C19_Witness ==
    /\ rd.state = "ok"
    /\ Len(rd.sigmffiles) = 2
    /\ rd.sigmffiles[1].length = 1
    /\ rd.sigmffiles[2].length = 2
    /\ rd.sigmffiles[1].offset < rd.sigmffiles[2].offset
    /\ View(Container, rd.sigmffiles[2].offset, 2) = <<<<"data", MetaB, 1>>, <<"data", MetaB, 2>>>>

\* every metadata member of the container validates
MetadataValid ==
    \A k \in MembersEnding(SIGMF_METADATA_EXT) : Container[k].meta.valid

\* C20: on a readable container whose metadata members are valid,
\* SigMFArchiveReader fails with SigMFFileError if and only if the container
\* holds no .sigmf-data member.
C20_ReaderPostcondition ==
    (rd.state # "idle" /\ rd.path = ContainerPath /\ MetadataValid) =>
        ((rd.state = "raised" /\ rd.err = "SigMFFileError")
            <=> MembersEnding(SIGMF_DATASET_EXT) = {})

C20_Witness ==
    /\ rd.state = "raised"
    /\ rd.path = ContainerPath
    /\ rd.err = "SigMFFileError"
    /\ MetadataValid
    /\ MembersEnding(SIGMF_METADATA_EXT) # {}
    /\ MembersEnding(SIGMF_DATASET_EXT) = {}

\* C21: opening a SigMFArchiveReader with a path that does not end in .sigmf,
\* or with a path to a file that does not exist, raises SigMFFileError.
C21_ReaderPathErrors ==
    (rd.state # "idle" /\ rd.path # <<>>) =>
        /\ ~EndsWith(rd.path, SIGMF_ARCHIVE_EXT) =>
              (rd.state = "raised" /\ rd.err = "SigMFFileError")
        /\ (Abspath(rd.path) \notin Files \/ ~fs[Abspath(rd.path)].exists) =>
              (rd.state = "raised" /\ rd.err = "SigMFFileError")

\* C22: every I/O failure during packaging (the output path or sink cannot be
\* opened or written, a Recording's dataset file cannot be copied, a staging
\* file cannot be created) reaches the caller as SigMFFileError.
C22_IOFailuresWrapped ==
    (pc = "raised" /\ at \in {"_get_output_fileobj", "copy", "staging"}) =>
        err = "SigMFFileError"

\* the k-th Recording handed in is named, bound to a data file and valid
Sound(k) ==
    /\ self.sigmffiles[k].name # <<>>
    /\ self.sigmffiles[k].data_file
    /\ self.sigmffiles[k].meta.valid

\* the first Recording, in list order, that fails a check
FirstUnsound ==
    CHOOSE k \in 1..Len(self.sigmffiles) : ~Sound(k) /\ \A j \in 1..(k - 1) : Sound(j)

\* the `path` argument passes the extension check: it is omitted, or its file
\* name has no extension and it holds no "." at all, or it ends in .sigmf
ExtensionAccepted ==
    \/ self.path_arg = <<>>
    \/ ~HasChar(self.path_arg, ".")
    \/ EndsWith(self.path_arg, SIGMF_ARCHIVE_EXT)

\* the file name of the `path` argument has an extension other than .sigmf
ExtensionRejected ==
    self.path_arg # <<>> /\ ArgExtension # <<>> /\ ArgExtension # SIGMF_ARCHIVE_EXT

\* C23: a Recording without name or without data file makes SigMFArchive fail
\* with SigMFFileError; the checks run after the path-extension check, per
\* Recording in list order (name, then data file, then schema validation) and
\* before the Collection validation, and the first failing check determines
\* the error raised.
C23_CheckOrder ==
    Called =>
        /\ ExtensionRejected => (RejectedByCheck /\ err = "SigMFFileError")
        /\ (ExtensionAccepted /\ ~AllSound) =>
              LET r == self.sigmffiles[FirstUnsound]
              IN  /\ RejectedByCheck
                  /\ err = (IF r.name = <<>> THEN "SigMFFileError"
                            ELSE IF ~r.data_file THEN "SigMFFileError"
                            ELSE "ValidationError")

C23_Witness ==
    /\ RejectedByCheck
    /\ err = "SigMFFileError"
    /\ ExtensionAccepted
    /\ Len(self.sigmffiles) = 2
    /\ Sound(1)
    /\ self.sigmffiles[2].name # <<>>
    /\ ~self.sigmffiles[2].data_file
    /\ ~self.sigmffiles[2].meta.valid
    /\ self.collection.given
    /\ CollectionLen(self.collection) = 1

\* SigMFArchive was called with neither `path` nor `fileobj`
NeitherSupplied == pc # "idle" /\ self.path_arg = <<>> /\ ~sink.given

\* the call was refused for its output target
RejectedForTarget == pc = "raised" /\ at = "arguments"

\* C24: SigMFArchive accepts a call only if at least one of `path` and
\* `fileobj` is supplied (both may be); supplying neither raises SigMFFileError
\* before any Recording is examined and before anything is written.
C24_TargetSelection ==
    /\ NeitherSupplied =>
          /\ RejectedForTarget
          /\ err = "SigMFFileError"
          /\ self.sigmffiles = <<>>
          /\ fs = pre
          /\ handle = "none"
          /\ tmp = {}
    /\ (pc # "idle" /\ ~NeitherSupplied) => ~RejectedForTarget

C24_Witness ==
    /\ NeitherSupplied
    /\ RejectedForTarget
    /\ err = "SigMFFileError"
    /\ pre = PriorFs
    /\ fs = pre

\* C24 as stated: a call is accepted only if exactly one of `path` and
\* `fileobj` is supplied.
C24_AsStated ==
    pc = "done" => ((self.path_arg # <<>>) # sink.given)

\* what _check_input does on the same call with `path` omitted
PathOmitted == CheckInput(self.sigmffiles, self.collection, <<>>)

\* the members the same call writes with `path` omitted: the Collection is
\* named after the file object
MembersPathOmitted ==
    (IF Truthy(self.collection)
     THEN <<CollectionMember(SplitExt(Split(sink.name)[2])[1], self.collection)>>
     ELSE <<>>)
    \o MembersUpTo(Len(self.sigmffiles))

\* C25: when `fileobj` is given, `path` has no effect: for every value of
\* `path` the outcome of SigMFArchive, the members written to fileobj and the
\* resulting archive path are those of the call with `path` omitted, and
\* nothing is created at `path`.
C25_PathHasNoEffect ==
    (Called /\ self.fileobj /\ self.path_arg # <<>>) =>
        /\ RejectedByCheck <=> PathOmitted.err # ""
        /\ RejectedByCheck => err = PathOmitted.err
        /\ pc = "done" =>
              /\ fs[SinkFile].members = pre[SinkFile].members \o MembersPathOmitted
              /\ self.path = SinkFile
        /\ \A f \in Files \ {SinkFile} : fs[f] = pre[f]

\* SigMFFileCollection.archive(fileobj=f) was called on n >= 1 valid Recordings
FileCollectionArchived ==
    /\ pc # "idle"
    /\ at = "SigMFFileCollection.archive"
    /\ sink.given
    /\ Len(self.sigmffiles) >= 1
    /\ AllSound

\* C26: for a SigMFFileCollection of n >= 1 valid Recordings, archive(fileobj=f)
\* writes a container to f, and reading it back yields n Recordings equal to
\* the inputs, in the same order.
C26_FileCollectionRoundTrip ==
    FileCollectionArchived =>
        /\ pc # "raised"
        /\ fs[SinkFile].members = pre[SinkFile].members \o MembersUpTo(Len(self.sigmffiles))

\* the name of the k-th Recording handed in has a directory part
InFolder(k) == Split(self.sigmffiles[k].name)[1] # <<>>

\* C27: Recordings whose name has a directory part can be archived together
\* into one container, and reading it back yields the same number of
\* Recordings, each equal to one of the inputs.
C27_NamesWithDirectory ==
    (/\ Called /\ ExtensionAccepted /\ AllSound /\ ~self.collection.given
     /\ Len(self.sigmffiles) >= 1
     /\ \A k \in 1..Len(self.sigmffiles) : InFolder(k)) =>
        /\ pc = "raised" => IOFailure
        /\ rd.state = "ok" =>
              /\ Len(rd.sigmffiles) = Len(self.sigmffiles)
              /\ \A r \in 1..Len(rd.sigmffiles) :
                    \E k \in 1..Len(self.sigmffiles) :
                        rd.sigmffiles[r].meta = self.sigmffiles[k].meta

\* the container the Reader was given: at its path, or behind the file object
ReadFile == IF rd.path # <<>> THEN Abspath(rd.path) ELSE SinkFile

\* the Recordings the container held before the call (three members each)
PriorCount == Len(pre[ReadFile].members) \div 3

\* the name under which the r-th Recording of the container was written
WrittenName(r) ==
    IF self.fileobj /\ r <= PriorCount
    THEN pre[ReadFile].members[3 * r - 2].name
    ELSE self.sigmffiles[IF self.fileobj THEN r - PriorCount ELSE r].name

Returned == pc \in {"done", "raised"}

\* C29: every temporary file and staging directory the Writer creates no longer
\* exists when SigMFArchive returns or raises, on every exit path including
\* validation failures and I/O errors.
C29_NoTemporaryLeaks == Returned => tmp = {}

C29_Witness ==
    /\ pc = "raised"
    /\ at = "copy"
    /\ Truthy(self.collection)
    /\ next = 2
    /\ Len(fs[tar.file].members) >= Len(pre[tar.file].members) + 4
    /\ tmp = {}

\* a member that is neither a directory nor a regular file ending in
\* .sigmf-meta, .sigmf-data or .sigmf-collection
Unrecognized(memb) ==
    \/ memb.type \notin {"dir", "file"}
    \/ /\ memb.type = "file"
       /\ ~EndsWith(memb.name, SIGMF_METADATA_EXT)
       /\ ~EndsWith(memb.name, SIGMF_DATASET_EXT)
       /\ ~EndsWith(memb.name, SIGMF_COLLECTION_EXT)

\* a container with its unrecognized members removed
Recognized(members) == SelectSeq(members, LAMBDA memb : ~Unrecognized(memb))

\* C30: members of a container that are neither directories nor regular files
\* ending in .sigmf-meta, .sigmf-data or .sigmf-collection never cause an
\* error, and the Reader's Recordings and Collection are the same as for the
\* container with those members removed.
C30_UnrecognizedIgnored ==
    (rd.state # "idle" /\ rd.path = ContainerPath) =>
        LET without == ReadArchive(Recognized(Container))
        IN  /\ rd.state = without.state
            /\ rd.err = without.err
            /\ rd.collection = without.collection
            /\ Len(rd.sigmffiles) = Len(without.sigmffiles)
            /\ \A r \in 1..Len(rd.sigmffiles) :
                  /\ rd.sigmffiles[r].name = without.sigmffiles[r].name
                  /\ rd.sigmffiles[r].meta = without.sigmffiles[r].meta
                  /\ View(Container, rd.sigmffiles[r].offset, rd.sigmffiles[r].length)
                       = View(Recognized(Container), without.sigmffiles[r].offset,
                              without.sigmffiles[r].length)

C30_Witness ==
    /\ rd.state = "ok"
    /\ rd.path = ContainerPath
    /\ Len(rd.sigmffiles) = 1
    /\ Len(Container) = 4
    /\ Len(Recognized(Container)) = 2
    /\ Unrecognized(Container[1])
    /\ \E k \in 1..Len(Container) : Container[k].type = "symlink"
    /\ \E k \in 1..Len(Container) : Container[k].type = "file" /\ Unrecognized(Container[k])

\* a Collection was handed in and it has no stream
ZeroStreams == self.collection.given /\ CollectionLen(self.collection) = 0

\* C31: archiving with a supplied Collection that has zero streams raises
\* SigMFValidationError out of _check_input and leaves the target as it was,
\* for every list of sound Recordings, the empty list included.
C31_ZeroStreamCollectionFails ==
    (Called /\ ~WrongExtension /\ AllSound /\ ZeroStreams) =>
        /\ pc = "raised"
        /\ err = "SigMFValidationError"
        /\ at = "_check_input"
        /\ TargetUntouched

\* the members the call has added to its target so far, in the order written
AddedMembers ==
    IF tar.file = <<>> THEN <<>>
    ELSE SubSeq(fs[tar.file].members,
                (IF self.fileobj THEN Len(pre[tar.file].members) ELSE 0) + 1,
                Len(fs[tar.file].members))

\* the TarFile of the call has been made and the call has neither returned nor raised
Writing == pc \in {"tar", "collection", "recs", "staged"}

\* C32: within one call the collection manifest, if any, is written before
\* every recording member; the recording directories are written in the order
\* of the input sequence, each immediately followed by its own two files; and
\* the container stays open until the last Recording has been written.
C32_MemberOrder ==
    LET ms == AddedMembers
        manifests == { k \in 1..Len(ms) : ms[k].kind = "coll" }
        off == Cardinality(manifests)
        n == (Len(ms) - off) \div 3
    IN  /\ manifests \subseteq {1}
        /\ Len(ms) = off + 3 * n
        /\ n <= Len(self.sigmffiles)
        /\ \A k \in 1..n :
              LET r == self.sigmffiles[k]
                  at_dir == off + 3 * (k - 1) + 1
                  files == { ms[at_dir + 1], ms[at_dir + 2] }
              IN  /\ ms[at_dir].type = "dir"
                  /\ ms[at_dir].name = r.name
                  /\ \A m \in files : m.type = "file" /\ m.meta = r.meta
                  /\ { m.name : m \in files }
                        = { Join(r.name, r.name \o SIGMF_METADATA_EXT),
                            Join(r.name, r.name \o SIGMF_DATASET_EXT) }
        /\ Writing => tar.open
        /\ ~tar.open /\ pc = "done" => n = Len(self.sigmffiles)

\* a manifest and two Recordings of different metadata were appended to a
\* container that held members already
C32_Witness ==
    /\ pc = "done"
    /\ self.fileobj
    /\ pre[tar.file].members # <<>>
    /\ Len(AddedMembers) = 7
    /\ AddedMembers[1].kind = "coll"
    /\ self.sigmffiles[1].meta # self.sigmffiles[2].meta

\* what the archive is called after: the normalized `path` when a path was
\* given, the name of the file object when only a file object was given
NamedAfter ==
    IF self.path_arg # <<>>
    THEN EnsurePathHasCorrectExtension(self.path_arg).path
    ELSE sink.name

PathTargetOpened == ~self.fileobj /\ tar.file # <<>>

\* C34: when `path` names the target and no file object is given, the
\* container holds only members written by this call, also when a file, even
\* an archive, was at the path before: once the call is done the container is
\* the members of the call, and until then the members written so far.
C34_PathTargetOverwritten ==
    PathTargetOpened =>
        LET ms == fs[tar.file].members
        IN  /\ Len(ms) <= Len(MembersOfCall)
            /\ ms = SubSeq(MembersOfCall, 1, Len(ms))
            /\ pc = "done" => ms = MembersOfCall

\* a call wrote one Recording to a path that held the container of another
C34_Witness ==
    /\ pc = "done"
    /\ ~self.fileobj
    /\ pre[tar.file].exists
    /\ Len(pre[tar.file].members) = 3
    /\ Len(fs[tar.file].members) = 3
    /\ \E k \in 1..3 : fs[tar.file].members[k].kind = "data"
                           /\ fs[tar.file].members[k] \notin
                                 { pre[tar.file].members[j] : j \in 1..3 }

\* C35: whenever the construction of a SigMFArchiveReader succeeds it holds at
\* least one Recording, and as many Recordings as the container has
\* .sigmf-data members, whatever the order of the metadata and dataset members.
C35_NoMemberDropped ==
    (rd.state = "ok" /\ rd.path = ContainerPath) =>
        /\ Len(rd.sigmffiles) >= 1
        /\ Len(rd.sigmffiles) = Cardinality(MembersEnding(SIGMF_DATASET_EXT))

\* C37: when the Writer opened the output itself (path target), the file handle
\* it opened is closed by the time SigMFArchive exits, whether it returns or
\* raises at a step after the handle was opened.
C37_OwnedSinkReleased ==
    (Returned /\ ~self.fileobj /\ handle # "none") => handle = "closed"

\* the directory members the call has added
AddedDirs == { j \in 1..Len(AddedMembers) : AddedMembers[j].type = "dir" }

\* the k-th Recording that _check_input validated has its metadata member in
\* the container
Written(k) ==
    LET r == self.sigmffiles[k]
    IN  \E j \in 1..Len(AddedMembers) :
            /\ AddedMembers[j].kind = "meta"
            /\ AddedMembers[j].meta = r.meta
            /\ AddedMembers[j].name = Join(r.name, r.name \o SIGMF_METADATA_EXT)

\* C36: for every `sigmffiles` argument the Writer accepts (a single SigMFFile,
\* a list, any other iterable, a one-shot iterator included), a completed call
\* has added as many recording directories as _check_input validated
\* Recordings, and has written each validated Recording.
C36_ValidatedIsWritten ==
    pc = "done" =>
        /\ Cardinality(AddedDirs) = Len(self.sigmffiles)
        /\ \A k \in 1..Len(self.sigmffiles) : Written(k)

\* C38: archiving into a file object without `path` needs only that the file
\* object be byte-writable: with a writable in-memory buffer, which has no name,
\* and no Collection, SigMFArchive succeeds for sound Recordings and writes
\* their members to the buffer.
C38_NamelessSink ==
    (/\ Called
     /\ sink.given
     /\ ~HasName(sink)
     /\ self.path_arg = <<>>
     /\ ~self.collection.given
     /\ self.kind \in {"SigMFFile", "list"}
     /\ AllSound
     /\ \A k \in 1..Len(self.sigmffiles) : ~InFolder(k)) =>
        /\ pc = "raised" => IOFailure
        /\ pc = "done" => AddedMembers = MembersOfCall

=============================================================================
